---- MODULE Spec2Model ----
(***************************************************************************)
(* Model of the ingestion-and-aggregation pipeline of UGC_game_analytics:  *)
(*   - get_game_details   (src/src/data_collector.py)  cache + 429 retry   *)
(*   - get_top_games      (src/fortnite_src/uefn_data_collector.py) paging *)
(*   - save_to_db         (src/src/data_collector.py)  snapshot upsert     *)
(*   - calculate_genre_benchmarks (src/src/data_collector.py) scoring      *)
(*   - collect_and_save   (src/steam_src/steam_collect_data.py) one run    *)
(*   - collect_and_save   (src/fortnite_src/uefn_data_collector.py) run    *)
(*   - save_additional_data (src/src/data_collector.py) nine categories    *)
(* Each subsystem has its own specification over the shared variables.     *)
(***************************************************************************)
EXTENDS Integers, Sequences, FiniteSets, TLC

VARIABLES
    \* ---- detail cache and get_game_details ----
    cache_file,      \* contents of game_details_cache.json: str(appid) -> entry
    cache_src,       \* ghost: for each cache key, the outcome and responses that wrote it
    d_call,          \* ghost: arguments and upstream responses of the last call
    d_out,           \* ghost: outcome record of the last get_game_details call
    d_calls,         \* number of get_game_details calls made so far
    \* ---- UEFN get_top_games ----
    u_pc,            \* "idle" | "paging" | "done" | "raised"
    u_limit,         \* the limit argument of the call
    all_games, seen_codes, seen_cursors, current_cursor,   \* locals of get_top_games
    u_result,        \* the returned list
    u_events,        \* the HTTP requests and sleeps performed, in order
    u_sent,          \* the cursor parameter of each request, in order
    u_repeat_at,     \* ghost: number of requests made when a page first returned a seen cursor (0: never)
    u_last,          \* ghost: the codes of the last page received and how many games it added
    \* ---- database ----
    games,           \* table games: one row per snapshot
    genres,          \* table genres: rows [id, name]
    game_genres,     \* table game_genres: rows [id, game_id, genre_id, timestamp]
    genre_benchmarks,\* table genre_benchmarks
    now,             \* the database clock, in hours
    db_ops,          \* number of database operations performed so far
    last_op,         \* ghost: the last database operation and its arguments
    prev_op,         \* ghost: the database operation before it
    prev_db,         \* ghost: the tables before the last operation
    uefn_top_games,  \* table uefn_top_games: one row per game_id
    uefn_game_metrics, \* table uefn_game_metrics: one row per (game_id, date)
    prev_uefn,       \* ghost: the two UEFN tables before the last operation
    \* ---- benchmark scoring on one genre group ----
    b_group, b_bench,
    \* ---- Steam collect_and_save ----
    r_pc,            \* phase of the run: "idle" | "init" | "listing" | "details" | "persist" | "bench"
    r_listing,       \* the listing request: its num_games and the answer (ok FALSE: the request fails)
    r_upstream,      \* external state: appid -> <<first response, retry response>> of the detail API
    r_ranks,         \* ranks of the listing not yet processed by get_top_games
    r_processed,     \* processed_games built so far
    r_runs,          \* number of runs finished
    r_cur,           \* ghost: what the current run did (phases, timestamps, failed fetches)
    r_snap,          \* ghost: the tables and r_cur at the end of the previous run
    \* ---- UEFN collect_and_save ----
    f_pc,            \* "off" | "start" | "listing" | "save_games" | "metrics" | "done" | "raised"
    f_env,           \* external state: the database settings present in the environment
    f_calls,         \* the external calls of the run, in order: "connect", "sql", "GET", "sleep"
    f_games,         \* the games of the listing not yet processed
    \* ---- save_additional_data ----
    a_pc,            \* index of the next category of the call (0: not called, 10: returned)
    a_appid,         \* the appid argument of the call
    a_tables,        \* the nine extended-detail tables: table name -> rows
    a_log,           \* ghost: per category, what its collector returned and how its block ended
    \* ---- main of steam_collect_data.py ----
    m_pc,            \* "off" | "start" | "loop" | "wait"
    m_cycle,         \* cycle_count
    m_events         \* ghost: the collections (with their outcome) and sleeps of main, in order

dvars == <<cache_file, cache_src, d_call, d_out, d_calls>>
uvars == <<u_pc, u_limit, all_games, seen_codes, seen_cursors, current_cursor,
           u_result, u_events, u_sent, u_repeat_at, u_last>>
uefn_tables == <<uefn_top_games, uefn_game_metrics, prev_uefn>>
dbvars == <<games, genres, game_genres, genre_benchmarks, now,
            db_ops, last_op, prev_op, prev_db, uefn_tables>>
bvars == <<b_group, b_bench>>
rvars == <<r_pc, r_listing, r_upstream, r_ranks, r_processed, r_runs, r_cur, r_snap>>
fvars == <<f_pc, f_env, f_calls, f_games>>
avars == <<a_pc, a_appid, a_tables, a_log>>
mvars == <<m_pc, m_cycle, m_events>>
vars == <<dvars, uvars, dbvars, bvars, rvars, fvars, avars, mvars>>

(***************************************************************************)
(* Bounds of the model.                                                    *)
(***************************************************************************)
NumApps == 2            \* appids are 1..NumApps
MaxDetailCalls == 3     \* get_game_details calls explored in SpecDetails

AppIds == 1..NumApps

\* Python None for a nullable number is the empty sequence, a present value v is <<v>>.
None == <<>>
Some(v) == <<v>>
\* Python None for a nullable string.
NULL == "None"
\* A Python list and a Python str (as its sequence of tokens) are told apart by
\* isinstance() in the code, so the model tags them.
PyList(seq) == [list |-> seq]
PyStr(tokens) == [str |-> tokens]
IsList(v) == DOMAIN v = {"list"}
IsStr(v) == DOMAIN v = {"str"}

(***************************************************************************)
(* Upstream appdetails responses.                                          *)
(***************************************************************************)
\* Raw "data" objects of the store API, two versions per appid (the upstream
\* may change between calls).  Version 2 lacks the optional objects, so the
\* .get() defaults of the parser are exercised.
RawDetails(appid, version) ==
    IF version = 1
    THEN [name |-> "game" \o ToString(appid),
          release_date |-> [date |-> "2020"],
          developers |-> PyList(<<"dev", "codev">>),
          publishers |-> PyList(<<"pub">>),
          genres |-> << [id |-> 1, description |-> "Action"],
                        [id |-> 2, description |-> "Indie"] >>,
          categories |-> << [id |-> 9, description |-> "Co-op"] >>,
          metacritic |-> [score |-> 80],
          price_overview |-> [final |-> 1000],
          supported_languages |->
              PyStr(<<"English", "<strong>", "*", "</strong>", ",", " ", "French",
                      "<br>", "<strong>", "*", "</strong>", "audio">>)]
    ELSE [name |-> "renamed" \o ToString(appid),
          genres |-> << [id |-> 1, description |-> "Action"] >>]

\* What the body of a 200 response can be.
Bodies == {"no_appid", "unsuccessful", "garbled", "v1", "v2"}
\* A response: connection error, or an HTTP status with a body.
\* (conn: requests.get itself raised; then status and body are not read).
ConnectionError == [conn |-> TRUE, status |-> 0, body |-> "garbled"]
Responses ==
    {ConnectionError,
     [conn |-> FALSE, status |-> 429, body |-> "garbled"],
     [conn |-> FALSE, status |-> 500, body |-> "garbled"]}
    \cup {[conn |-> FALSE, status |-> 200, body |-> b] : b \in Bodies}

default_details ==
    [name |-> "Unknown Game",
     release_date |-> NULL,
     developer |-> PyList(<<>>),
     publisher |-> PyList(<<>>),
     genres |-> <<>>,
     categories |-> PyList(<<>>),
     metacritic_score |-> None,
     price_usd |-> 0,
     supported_languages |-> PyList(<<>>)]

Descriptions(objs) == [i \in 1..Len(objs) |-> objs[i].description]

\* dict.get(key, default)
Get(d, key, default) == IF key \in DOMAIN d THEN d[key] ELSE default

\* The result dict built from game_data['data'].
ParseDetails(details) ==
    [name |-> Get(details, "name", "Unknown Game"),
     release_date |-> Get(Get(details, "release_date", [x |-> 0]), "date", NULL),
     developer |-> Get(details, "developers", PyList(<<>>)),
     publisher |-> Get(details, "publishers", PyList(<<>>)),
     genres |-> Descriptions(Get(details, "genres", <<>>)),
     categories |-> PyList(Descriptions(Get(details, "categories", <<>>))),
     metacritic_score |->
        LET m == Get(details, "metacritic", [x |-> 0])
        IN IF "score" \in DOMAIN m THEN Some(m.score) ELSE None,
     price_usd |-> Get(Get(details, "price_overview", [x |-> 0]), "final", 0) \div 100,
     supported_languages |-> Get(details, "supported_languages", PyList(<<>>))]

\* A cache entry of the wrong shape (a JSON value that is not an object).
WrongShape == [shape |-> "list"]
\* A mutation of IsDict: no cached entry is accepted.
IsDict_RejectsAll(entry) == FALSE
\* isinstance(cached_data, dict)
IsDict(entry) == entry # WrongShape

CachePut_StoresDefault(cache, appid, value) ==
    [k \in DOMAIN cache \cup {appid} |-> IF k = appid THEN default_details ELSE cache[k]]

\* json.dump(cache) after cache[str(appid)] = value
CachePut(cache, appid, value) ==
    [k \in DOMAIN cache \cup {appid} |-> IF k = appid THEN value ELSE cache[k]]
\* del cache[str(appid)]
CacheDel(cache, appid) == [k \in DOMAIN cache \ {appid} |-> cache[k]]

EmptyCache == <<>>

\* Mutations of RequestWithRetry and CachePut: the retry is sent without the
\* cooldown; the default payload is stored instead of the fetched one.
RequestWithRetry_NoCooldown(r1, r2) ==
    IF r1.conn
    THEN [events |-> <<"sleep_1.2", "GET">>, raised |-> TRUE, response |-> r1]
    ELSE IF r1.status = 429
    THEN [events |-> <<"sleep_1.2", "GET", "GET">>, raised |-> r2.conn, response |-> r2]
    ELSE [events |-> <<"sleep_1.2", "GET">>, raised |-> FALSE, response |-> r1]

\* The events of the request part of get_game_details and the response that
\* reaches raise_for_status: one delay, one request, and on 429 one cooldown
\* and one retry.
RequestWithRetry(r1, r2) ==
    IF r1.conn
    THEN [events |-> <<"sleep_1.2", "GET">>, raised |-> TRUE, response |-> r1]
    ELSE IF r1.status = 429
    THEN [events |-> <<"sleep_1.2", "GET", "sleep_60", "GET">>,
          raised |-> r2.conn, response |-> r2]
    ELSE [events |-> <<"sleep_1.2", "GET">>, raised |-> FALSE, response |-> r1]

\* A mutation of get_game_details: without the handler of line 173, a failed
\* request or an unreadable body raises to the caller.
get_game_details_NoHandler(file, appid, r1, r2) ==
    LET hit == appid \in DOMAIN file /\ IsDict(file[appid])
        cache == IF appid \in DOMAIN file /\ ~IsDict(file[appid])
                 THEN CacheDel(file, appid) ELSE file
        req == RequestWithRetry(r1, r2)
        resp == req.response
        failed == req.raised \/ resp.status >= 400 \/ resp.body = "garbled"
    IN  IF hit
        THEN [ret |-> file[appid], raised |-> FALSE, file |-> file,
              events |-> <<>>, how |-> "hit", mem |-> file]
        ELSE IF failed
        THEN [ret |-> <<>>, raised |-> TRUE, file |-> file,
              events |-> req.events, how |-> "failed", mem |-> cache]
        ELSE IF resp.body \in {"no_appid", "unsuccessful"}
        THEN [ret |-> default_details, raised |-> FALSE, file |-> file,
              events |-> req.events, how |-> "not_found", mem |-> cache]
        ELSE LET result == ParseDetails(RawDetails(appid, IF resp.body = "v1" THEN 1 ELSE 2))
             IN [ret |-> result, raised |-> FALSE,
                 file |-> CachePut(cache, appid, result),
                 events |-> req.events, how |-> "fetched",
                 mem |-> CachePut(cache, appid, result)]

\* get_game_details(appid, api_key) on cache file contents `file`, when the
\* upstream answers the first request with r1 and a retry with r2.
\*   ret     the value returned to the caller
\*   raised  TRUE when an exception leaves the function
\*   file    the cache file afterwards
\*   events  the sleeps and HTTP requests performed, in order
\*   how     "hit" | "fetched" | "not_found" | "failed"
\*   mem     the local dict `cache` when the function returns
get_game_details(file, appid, r1, r2) ==
    LET hit == appid \in DOMAIN file /\ IsDict(file[appid])
        cache == IF appid \in DOMAIN file /\ ~IsDict(file[appid])
                 THEN CacheDel(file, appid) ELSE file
        req == RequestWithRetry(r1, r2)
        resp == req.response
        failed == req.raised \/ resp.status >= 400 \/ resp.body = "garbled"
    IN  IF hit
        THEN [ret |-> file[appid], raised |-> FALSE, file |-> file,
              events |-> <<>>, how |-> "hit", mem |-> file]
        ELSE IF failed
        THEN [ret |-> default_details, raised |-> FALSE,
              file |-> CachePut(cache, appid, default_details),
              events |-> req.events, how |-> "failed",
              mem |-> CachePut(cache, appid, default_details)]
        ELSE IF resp.body \in {"no_appid", "unsuccessful"}
        THEN [ret |-> default_details, raised |-> FALSE, file |-> file,
              events |-> req.events, how |-> "not_found", mem |-> cache]
        ELSE LET result == ParseDetails(RawDetails(appid, IF resp.body = "v1" THEN 1 ELSE 2))
             IN [ret |-> result, raised |-> FALSE,
                 file |-> CachePut(cache, appid, result),
                 events |-> req.events, how |-> "fetched",
                 mem |-> CachePut(cache, appid, result)]

Count(seq, x) == Cardinality({i \in 1..Len(seq) : seq[i] = x})

NoCall == [appid |-> 0, r1 |-> ConnectionError, r2 |-> ConnectionError,
           before |-> EmptyCache, before_src |-> <<>>]

\* The ghost record of who wrote each cache entry, after a call.
SrcAfter(src, file, out, appid, r1, r2) ==
    IF out.file = file THEN src
    ELSE [k \in DOMAIN out.file |->
            IF k = appid THEN [how |-> out.how, r1 |-> r1, r2 |-> r2] ELSE src[k]]
NoOut == [ret |-> default_details, raised |-> FALSE, file |-> EmptyCache,
          events |-> <<>>, how |-> "none", mem |-> EmptyCache]

InitDetails ==
    /\ cache_file = EmptyCache
    /\ cache_src = <<>>
    /\ d_call = NoCall
    /\ d_out = NoOut
    /\ d_calls = 0

\* game_details_cache.json as a process can find it at its start: for each
\* appid no entry, an entry of the wrong shape, or details written earlier.
PersistedFiles ==
    UNION {[keys -> {WrongShape, ParseDetails(RawDetails(1, 1))}] : keys \in SUBSET AppIds}
PersistedSrc == [how |-> "persisted", r1 |-> ConnectionError, r2 |-> ConnectionError]

\* The process starts on a cache file written before it.
InitCacheFile ==
    /\ cache_file \in PersistedFiles
    /\ cache_src = [k \in DOMAIN cache_file |-> PersistedSrc]
    /\ d_call = [NoCall EXCEPT !.before = cache_file, !.before_src = cache_src]
    /\ d_out = NoOut
    /\ d_calls = 0

\* One call of get_game_details by some caller.
CallDetails(appid, r1, r2) ==
    /\ d_calls < MaxDetailCalls
    /\ LET out == get_game_details(cache_file, appid, r1, r2)
       IN /\ d_out' = out
          /\ cache_file' = out.file
          /\ cache_src' = SrcAfter(cache_src, cache_file, out, appid, r1, r2)
    /\ d_call' = [appid |-> appid, r1 |-> r1, r2 |-> r2, before |-> cache_file,
                  before_src |-> cache_src]
    /\ d_calls' = d_calls + 1

NextDetails ==
    /\ \E appid \in AppIds, r1, r2 \in Responses :
          /\ (r1.status # 429 => r2 = r1)
          /\ CallDetails(appid, r1, r2)
    /\ UNCHANGED <<uvars, dbvars, bvars, rvars, fvars, avars, mvars>>

(***************************************************************************)
(* UEFN get_top_games: cursor pagination of the islands listing.           *)
(***************************************************************************)
MaxPageLen == 2         \* games per page returned by the model's server

Codes == {"A", "B", "C", "D"}
\* The limit argument ranges over 0..MaxLimit: a limit above the number of
\* codes the server knows is never reached.
MaxLimit == Cardinality(Codes)
Cursors == {"c1", "c2", "c3"}

RECURSIVE SeqsUpTo(_, _)
SeqsUpTo(S, n) ==
    IF n = 0 THEN {<<>>}
    ELSE LET shorter == SeqsUpTo(S, n - 1)
         IN shorter \cup {Append(s, x) : s \in {t \in shorter : Len(t) = n - 1}, x \in S}

\* A page of the listing: the codes of its games in order and the cursor carried
\* by its last game (JSON null is NULL).  An empty page carries no cursor.
Pages ==
    {[codes |-> <<>>, cursor |-> NULL]}
    \cup {[codes |-> s, cursor |-> c] :
             s \in SeqsUpTo(Codes, MaxPageLen) \ {<<>>}, c \in Cursors \cup {NULL}}

\* Mutations of AddNewGames and LoopCondition: codes already seen are appended
\* again; the loop goes on after the limit is reached.
RECURSIVE AddNewGames_KeepsDuplicates(_, _)
AddNewGames_KeepsDuplicates(acc, codes) ==
    IF codes = <<>> THEN acc
    ELSE AddNewGames_KeepsDuplicates(
             [games |-> Append(acc.games, Head(codes)),
              seen |-> acc.seen \cup {Head(codes)},
              added |-> acc.added + 1],
             Tail(codes))
LoopCondition_IgnoresLimit(cursor, collected, limit) == cursor # NULL

\* "for game in games: if game['code'] not in seen_codes: append, add"
RECURSIVE AddNewGames(_, _)
AddNewGames(acc, codes) ==
    IF codes = <<>> THEN acc
    ELSE AddNewGames(IF Head(codes) \in acc.seen THEN acc
                     ELSE [games |-> Append(acc.games, Head(codes)),
                           seen |-> acc.seen \cup {Head(codes)},
                           added |-> acc.added + 1],
                     Tail(codes))

\* A mutation of Take: the slice keeps the whole list.
Take_KeepsAll(seq, n) == seq

\* all_games[:limit] and ranks[:num_games]
Take(seq, n) == SubSeq(seq, 1, IF Len(seq) < n THEN Len(seq) ELSE n)

\* "while current_cursor and len(all_games) < limit"
LoopCondition(cursor, collected, limit) == cursor # NULL /\ Len(collected) < limit

UefnStart(limit) ==
    /\ u_pc = "idle"
    /\ u_limit = limit
    /\ all_games = <<>>
    /\ seen_codes = {}
    /\ seen_cursors = {}
    /\ current_cursor = NULL
    /\ u_result = <<>>
    /\ u_events = <<>>
    /\ u_sent = <<>>
    /\ u_repeat_at = 0
    /\ u_last = [codes |-> <<>>, added |-> 0]

\* A mutation of CursorLoop: the repeated cursor is not detected.
CursorLoop_NeverDetected(cursor, seen) == FALSE

\* "if current_cursor in seen_cursors"
CursorLoop(cursor, seen) == cursor \in seen

InitUefn == \E limit \in 0..MaxLimit : UefnStart(limit)

\* The first request fails: raise_for_status() raises and get_top_games re-raises.
UefnFirstPageError ==
    /\ u_pc = "idle"
    /\ u_pc' = "raised"
    /\ u_events' = Append(u_events, "GET")
    /\ u_sent' = Append(u_sent, NULL)
    /\ UNCHANGED <<u_limit, all_games, seen_codes, seen_cursors, current_cursor,
                   u_result, u_repeat_at, u_last>>

\* Lines 123-151 and the first evaluation of the loop condition.
UefnFirstPage(page) ==
    /\ u_pc = "idle"
    /\ LET acc == AddNewGames([games |-> <<>>, seen |-> {}, added |-> 0], page.codes)
           cursor == IF page.codes # <<>> THEN page.cursor ELSE NULL
       IN /\ all_games' = acc.games
          /\ seen_codes' = acc.seen
          /\ current_cursor' = cursor
          /\ seen_cursors' = {cursor}
          /\ u_last' = [codes |-> page.codes, added |-> acc.added]
          /\ IF LoopCondition(cursor, acc.games, u_limit)
             THEN u_pc' = "paging" /\ u_result' = u_result
             ELSE u_pc' = "done" /\ u_result' = Take(acc.games, u_limit)
    /\ u_events' = Append(u_events, "GET")
    /\ u_sent' = Append(u_sent, NULL)
    /\ UNCHANGED <<u_limit, u_repeat_at>>

\* A request inside the loop fails.
UefnNextPageError ==
    /\ u_pc = "paging"
    /\ u_pc' = "raised"
    /\ u_events' = Append(u_events, "GET")
    /\ u_sent' = Append(u_sent, current_cursor)
    /\ UNCHANGED <<u_limit, all_games, seen_codes, seen_cursors, current_cursor,
                   u_result, u_repeat_at, u_last>>

\* One iteration of the while loop (lines 154-192) followed by the next
\* evaluation of the loop condition; on loop exit, the return of line 195.
UefnNextPage(page) ==
    /\ u_pc = "paging"
    /\ LET acc == AddNewGames([games |-> all_games, seen |-> seen_codes, added |-> 0],
                              page.codes)
           requests == Count(u_events, "GET") + 1
           repeated == page.codes # <<>> /\ page.cursor \in seen_cursors
       IN /\ u_sent' = Append(u_sent, current_cursor)
          /\ u_last' = [codes |-> page.codes, added |-> acc.added]
          /\ u_repeat_at' = IF u_repeat_at = 0 /\ repeated THEN requests ELSE u_repeat_at
          /\ IF page.codes = <<>>
             THEN \* "No more games to fetch": break
                  /\ u_pc' = "done"
                  /\ u_result' = Take(all_games, u_limit)
                  /\ u_events' = Append(u_events, "GET")
                  /\ UNCHANGED <<all_games, seen_codes, seen_cursors, current_cursor>>
             ELSE IF acc.added = 0
             THEN \* "No new games found in this page": break
                  /\ u_pc' = "done"
                  /\ u_result' = Take(all_games, u_limit)
                  /\ u_events' = Append(u_events, "GET")
                  /\ UNCHANGED <<all_games, seen_codes, seen_cursors, current_cursor>>
             ELSE IF CursorLoop(page.cursor, seen_cursors)
             THEN \* "Detected cursor loop": break
                  /\ all_games' = acc.games
                  /\ seen_codes' = acc.seen
                  /\ current_cursor' = page.cursor
                  /\ u_pc' = "done"
                  /\ u_result' = Take(acc.games, u_limit)
                  /\ u_events' = Append(u_events, "GET")
                  /\ UNCHANGED seen_cursors
             ELSE /\ all_games' = acc.games
                  /\ seen_codes' = acc.seen
                  /\ current_cursor' = page.cursor
                  /\ seen_cursors' = seen_cursors \cup {page.cursor}
                  /\ u_events' = u_events \o <<"GET", "sleep_1">>
                  /\ IF LoopCondition(page.cursor, acc.games, u_limit)
                     THEN u_pc' = "paging" /\ u_result' = u_result
                     ELSE u_pc' = "done" /\ u_result' = Take(acc.games, u_limit)
    /\ UNCHANGED u_limit

NextUefn ==
    \/ UefnFirstPageError /\ UNCHANGED <<dvars, dbvars, bvars, rvars, fvars, avars, mvars>>
    \/ \E page \in Pages : UefnFirstPage(page) /\ UNCHANGED <<dvars, dbvars, bvars, rvars, fvars, avars, mvars>>
    \/ UefnNextPageError /\ UNCHANGED <<dvars, dbvars, bvars, rvars, fvars, avars, mvars>>
    \/ \E page \in Pages : UefnNextPage(page) /\ UNCHANGED <<dvars, dbvars, bvars, rvars, fvars, avars, mvars>>

(***************************************************************************)
(* The database: save_to_db.                                               *)
(***************************************************************************)
\* INTERVAL '24 hours' of calculate_genre_benchmarks
Window == 24

MaxDbOps == 3           \* database operations explored in SpecDb
MaxTime == 26           \* the clock stops advancing at MaxTime hours
\* Granularity of the model's clock: two ticks leave the 24-hour window.
TickHours == Window \div 2 + 1

\* str.lower() on the release-date strings of the model.
Lower(str) ==
    CASE str = "TBA" -> "tba"
      [] str = "Coming Soon" -> "coming soon"
      [] str = "To be announced" -> "to be announced"
      [] OTHER -> str

\* release_date.lower() in ['to be announced', 'coming soon', 'tba'] -> None
NormalizeReleaseDate(release_date) ==
    IF release_date # NULL /\ release_date # ""
       /\ Lower(release_date) \in {"to be announced", "coming soon", "tba"}
    THEN NULL ELSE release_date

\* str.replace(old, new) when new is one token, and when new is ''
ReplaceToken(tokens, old, new) ==
    [i \in 1..Len(tokens) |-> IF tokens[i] = old THEN new ELSE tokens[i]]
RemoveToken(tokens, old) == SelectSeq(tokens, LAMBDA t : t # old)

\* str.split(',')
RECURSIVE SplitOn(_, _, _)
SplitOn(tokens, sep, current) ==
    IF tokens = <<>> THEN <<current>>
    ELSE IF Head(tokens) = sep
    THEN <<current>> \o SplitOn(Tail(tokens), sep, <<>>)
    ELSE SplitOn(Tail(tokens), sep, Append(current, Head(tokens)))

\* str.strip()
RECURSIVE StripLeft(_)
StripLeft(tokens) ==
    IF tokens # <<>> /\ Head(tokens) = " " THEN StripLeft(Tail(tokens)) ELSE tokens
RECURSIVE StripRight(_)
StripRight(tokens) ==
    IF tokens # <<>> /\ tokens[Len(tokens)] = " "
    THEN StripRight(SubSeq(tokens, 1, Len(tokens) - 1)) ELSE tokens
Strip(tokens) == StripRight(StripLeft(tokens))

\* [x.strip() for x in s.split(',') if x.strip()]
SplitTrim(tokens) ==
    LET parts == SplitOn(tokens, ",", <<>>)
        stripped == [i \in 1..Len(parts) |-> PyStr(Strip(parts[i]))]
    IN SelectSeq(stripped, LAMBDA x : x.str # <<>>)

NormalizeLanguages(value) ==
    IF IsStr(value)
    THEN PyList(SplitTrim(RemoveToken(RemoveToken(ReplaceToken(value.str, "<br>", ","),
                                                  "<strong>"), "</strong>")))
    ELSE value

NormalizeCategories(value) ==
    IF IsStr(value) THEN PyList(SplitTrim(value.str)) ELSE value

\* value[0] if isinstance(value, list) and value else value
FirstOrSelf(value) ==
    IF IsList(value) /\ value.list # <<>> THEN PyStr(<<value.list[1]>>) ELSE value

\* The twelve values bound to the INSERT of one game.
InsertValues(game) ==
    [appid |-> game.appid,
     name |-> game.name,
     current_players |-> game.current_players,
     peak_players |-> game.peak_players,
     release_date |-> NormalizeReleaseDate(game.release_date),
     developer |-> FirstOrSelf(game.developer),
     publisher |-> FirstOrSelf(game.publisher),
     genres |-> game.genres,
     categories |-> NormalizeCategories(game.categories),
     metacritic_score |-> game.metacritic_score,
     price_usd |-> game.price_usd,
     supported_languages |-> NormalizeLanguages(game.supported_languages)]

MutableColumns ==
    {"name", "current_players", "peak_players", "release_date", "developer",
     "publisher", "genres", "categories", "metacritic_score", "price_usd",
     "supported_languages"}

MaxOf(S) == CHOOSE x \in S : \A y \in S : y <= x
\* The id a serial column gives to a new row.
NewId(table) == IF table = {} THEN 1 ELSE MaxOf({r.id : r \in table}) + 1

AsRow(values, id, ts) ==
    [k \in DOMAIN values \cup {"id", "timestamp"} |->
        IF k = "id" THEN id ELSE IF k = "timestamp" THEN ts ELSE values[k]]

\* Mutations of UpsertGame: a plain INSERT without the conflict clause,
\* ON CONFLICT DO NOTHING, and a conflict target of (appid) alone.
UpsertGame_PlainInsert(table, values, ts) ==
    table \cup {AsRow(values, NewId(table), ts)}
UpsertGame_DoNothing(table, values, ts) ==
    IF \E r \in table : r.appid = values.appid /\ r.timestamp = ts THEN table
    ELSE table \cup {AsRow(values, NewId(table), ts)}
UpsertGame_KeyedOnAppid(table, values, ts) ==
    LET hit == {r \in table : r.appid = values.appid}
    IN IF hit = {}
       THEN table \cup {AsRow(values, NewId(table), ts)}
       ELSE (table \ hit) \cup {AsRow(values, r.id, ts) : r \in hit}

\* INSERT INTO games ... ON CONFLICT (appid, timestamp) DO UPDATE SET <mutable columns>
UpsertGame(table, values, ts) ==
    LET hit == {r \in table : r.appid = values.appid /\ r.timestamp = ts}
    IN IF hit = {}
       THEN table \cup {AsRow(values, NewId(table), ts)}
       ELSE (table \ hit) \cup {AsRow(values, r.id, r.timestamp) : r \in hit}

\* INSERT INTO genres (name) ... ON CONFLICT (name) DO NOTHING
InsertGenre(table, name) ==
    IF \E r \in table : r.name = name THEN table
    ELSE table \cup {[id |-> NewId(table), name |-> name]}

\* A mutation of LatestGameIds: ORDER BY timestamp ASC.
LatestGameIds_Oldest(table, appid) ==
    {r.id : r \in {x \in table : /\ x.appid = appid
                                 /\ \A y \in table : y.appid = appid => y.timestamp >= x.timestamp}}

\* SELECT id FROM games WHERE appid = %s ORDER BY timestamp DESC LIMIT 1
LatestGameIds(table, appid) ==
    {r.id : r \in {x \in table : /\ x.appid = appid
                                 /\ \A y \in table : y.appid = appid => y.timestamp <= x.timestamp}}

\* A mutation of InsertLink: a plain INSERT without the conflict clause.
InsertLink_PlainInsert(table, game_id, genre_id, ts) ==
    table \cup {[id |-> NewId(table), game_id |-> game_id, genre_id |-> genre_id,
                 timestamp |-> ts]}

\* INSERT INTO game_genres ... ON CONFLICT (game_id, genre_id, timestamp) DO NOTHING
\* The field id is the identity of the stored row, so that two rows with equal
\* columns are two rows.
InsertLink(table, game_id, genre_id, ts) ==
    IF \E r \in table : r.game_id = game_id /\ r.genre_id = genre_id /\ r.timestamp = ts
    THEN table
    ELSE table \cup {[id |-> NewId(table), game_id |-> game_id, genre_id |-> genre_id,
                      timestamp |-> ts]}

\* "for genre in game.get('genres', [])" of one game
RECURSIVE SaveGenres(_, _, _, _)
SaveGenres(db, appid, genre_names, ts) ==
    IF genre_names = <<>> THEN db
    ELSE LET gtable == InsertGenre(db.genres, Head(genre_names))
             genre_ids == {r.id : r \in {x \in gtable : x.name = Head(genre_names)}}
             game_ids == LatestGameIds(db.games, appid)
             links == IF genre_ids # {} /\ game_ids # {}
                      THEN InsertLink(db.game_genres, CHOOSE i \in game_ids : TRUE,
                                      CHOOSE i \in genre_ids : TRUE, ts)
                      ELSE db.game_genres
         IN SaveGenres([db EXCEPT !.genres = gtable, !.game_genres = links],
                       appid, Tail(genre_names), ts)

\* The body of "for game in games" for one game.
SaveGame(db, game, ts) ==
    SaveGenres([db EXCEPT !.games = UpsertGame(db.games, InsertValues(game), ts)],
               game.appid, game.genres, ts)

RECURSIVE SaveGames(_, _, _)
SaveGames(db, list, ts) ==
    IF list = <<>> THEN db ELSE SaveGames(SaveGame(db, Head(list), ts), Tail(list), ts)

\* save_to_db(games) as one transaction started at ts: either every statement
\* is committed, or a statement raises, the transaction is rolled back and the
\* exception is re-raised.
save_to_db(db, list, ts, fails) ==
    IF fails THEN [db |-> db, raised |-> TRUE, conn |-> "closed"]
    ELSE [db |-> SaveGames(db, list, ts), raised |-> FALSE, conn |-> "closed"]

Db == [games |-> games, genres |-> genres, game_genres |-> game_genres]

\* Inputs of save_to_db explored by SpecDb.
GameA ==
    [appid |-> 1, name |-> "game1", current_players |-> 10, peak_players |-> 100000,
     release_date |-> "2020", developer |-> PyList(<<"dev", "codev">>),
     publisher |-> PyList(<<"pub">>), genres |-> <<"Action", "Indie">>,
     categories |-> PyList(<<"Co-op">>), metacritic_score |-> Some(80), price_usd |-> 10,
     supported_languages |-> PyStr(<<"English", "<strong>", "*", "</strong>", ",", " ",
                                    "French", "<br>", "<strong>", "*", "</strong>", "audio">>)]
GameA2 ==
    [appid |-> 1, name |-> "renamed1", current_players |-> 20, peak_players |-> 300000,
     release_date |-> "Coming Soon", developer |-> PyList(<<>>),
     publisher |-> PyStr(<<"pub2">>), genres |-> <<"Action", "Action">>,
     categories |-> PyStr(<<"Co-op", ",", " ", ",", "PvP", " ">>),
     metacritic_score |-> None, price_usd |-> 0,
     supported_languages |-> PyList(<<PyStr(<<"English">>)>>)]
GameB ==
    [appid |-> 2, name |-> "game2", current_players |-> 5, peak_players |-> 0,
     release_date |-> "TBA", developer |-> PyList(<<"dev2">>),
     publisher |-> PyList(<<>>), genres |-> <<"Indie">>,
     categories |-> PyList(<<>>), metacritic_score |-> Some(60), price_usd |-> 30,
     supported_languages |-> PyList(<<>>)]

SaveInputs ==
    { <<>>, <<GameA>>, <<GameA2>>, <<GameB>>, <<GameA, GameA2>>, <<GameA2, GameB, GameA>> }

NoOp == [kind |-> "none", list |-> <<>>, ts |-> 0, ok |-> FALSE, failure |-> "none",
         conn |-> "none"]

InitDb ==
    /\ games = {}
    /\ genres = {}
    /\ game_genres = {}
    /\ genre_benchmarks = {}
    /\ now = 0
    /\ db_ops = 0
    /\ last_op = NoOp
    /\ prev_op = NoOp
    /\ prev_db = Db
    /\ uefn_top_games = {}
    /\ uefn_game_metrics = {}
    /\ prev_uefn = [top_games |-> {}, game_metrics |-> {}]

\* Time passes between two transactions.
Tick ==
    /\ now + TickHours <= MaxTime
    /\ now' = now + TickHours
    /\ UNCHANGED <<games, genres, game_genres, genre_benchmarks, db_ops, last_op,
                   prev_op, prev_db, uefn_tables>>

\* One call of save_to_db; CURRENT_TIMESTAMP is the start of its transaction.
SaveToDb(list, fails) ==
    /\ db_ops < MaxDbOps
    /\ LET out == save_to_db(Db, list, now, fails)
       IN /\ games' = out.db.games
          /\ genres' = out.db.genres
          /\ game_genres' = out.db.game_genres
          /\ last_op' = [kind |-> "save", list |-> list, ts |-> now, ok |-> ~out.raised,
                         failure |-> IF fails THEN "write" ELSE "none", conn |-> out.conn]
    /\ prev_op' = last_op
    /\ prev_db' = Db
    /\ db_ops' = db_ops + 1
    /\ UNCHANGED <<genre_benchmarks, now, uefn_tables>>


(***************************************************************************)
(* calculate_genre_benchmarks.  Python's float arithmetic is modelled by   *)
(* exact rationals <<numerator, denominator>> in lowest terms.             *)
(***************************************************************************)
RECURSIVE Gcd(_, _)
Gcd(a, b) == IF b = 0 THEN a ELSE Gcd(b, a % b)
Abs(x) == IF x < 0 THEN -x ELSE x
Rat(n, d) ==
    LET g == Gcd(Abs(n), Abs(d))
        sign == IF d < 0 THEN -1 ELSE 1
    IN <<sign * (n \div g), sign * (d \div g)>>
RInt(n) == <<n, 1>>
RAdd(x, y) == Rat(x[1] * y[2] + y[1] * x[2], x[2] * y[2])
RMul(x, y) == LET a == Rat(x[1], y[2])  b == Rat(y[1], x[2])
              IN Rat(a[1] * b[1], a[2] * b[2])
RLe(x, y) == x[1] * y[2] <= y[1] * x[2]
RMin(x, y) == IF RLe(y, x) THEN y ELSE x
RIsZero(x) == x[1] = 0

PlayerCeiling == 1000000
PriceCeiling == 100

RECURSIVE SumSeq(_)
SumSeq(seq) == IF seq = <<>> THEN 0 ELSE Head(seq) + SumSeq(Tail(seq))

\* sum(values) / len(values) if values else 0
Mean(values) == IF values # <<>> THEN Rat(SumSeq(values), Len(values)) ELSE RInt(0)

\* Lines 713-720 for the fetched rows of one genre, in fetch order: a value
\* that is None or 0 is falsy and is left out of its list.
RECURSIVE Accumulate(_, _)
Accumulate(data, rows) ==
    IF rows = <<>> THEN data
    ELSE LET game == Head(rows)
             peak == game.peak_players
             hasScore == game.metacritic_score # None /\ game.metacritic_score[1] # 0
         IN Accumulate(
              [total_games |-> data.total_games + 1,
               total_players |-> IF peak # 0 THEN data.total_players + peak
                                 ELSE data.total_players,
               player_counts |-> IF peak # 0 THEN Append(data.player_counts, peak)
                                 ELSE data.player_counts,
               review_scores |-> IF hasScore
                                 THEN Append(data.review_scores, game.metacritic_score[1])
                                 ELSE data.review_scores,
               prices |-> IF game.price_usd # 0 THEN Append(data.prices, game.price_usd)
                          ELSE data.prices],
              Tail(rows))

EmptyGenreData ==
    [total_games |-> 0, total_players |-> 0, player_counts |-> <<>>,
     review_scores |-> <<>>, prices |-> <<>>]

\* min(avg / ceiling, 1.0) * 100
Normalize(avg, ceiling) == RMul(RMin(RMul(avg, Rat(1, ceiling)), RInt(1)), RInt(100))
\* A mutation of NormalizeReview: a genre without review scores is given the
\* neutral score 50.
NormalizeReview_NeutralWhenMissing(avg) == IF RIsZero(avg) THEN RInt(50) ELSE avg

\* Already on 0-100 scale
NormalizeReview(avg) == avg

\* A mutation of Weighted: the two weights are exchanged.
Weighted_WeightsExchanged(a, wa, b, wb) ==
    IF ~RIsZero(a) \/ ~RIsZero(b)
    THEN RAdd(RMul(a, Rat(wb, 10)), RMul(b, Rat(wa, 10)))
    ELSE RInt(0)

\* (a * wa + b * wb) if (a or b) else 0, with weights in tenths
Weighted(a, wa, b, wb) ==
    IF ~RIsZero(a) \/ ~RIsZero(b)
    THEN RAdd(RMul(a, Rat(wa, 10)), RMul(b, Rat(wb, 10)))
    ELSE RInt(0)

\* Lines 725-758: the benchmark dict of one genre.
Benchmark(genre, data) ==
    LET avg_player_count == Mean(data.player_counts)
        avg_review_score == Mean(data.review_scores)
        avg_price == Mean(data.prices)
        normalized_player_count == Normalize(avg_player_count, PlayerCeiling)
        normalized_review_score == NormalizeReview(avg_review_score)
        normalized_price == Normalize(avg_price, PriceCeiling)
    IN [genre |-> genre,
        total_games |-> data.total_games,
        total_players |-> data.total_players,
        avg_player_count |-> avg_player_count,
        avg_review_score |-> avg_review_score,
        avg_price |-> avg_price,
        market_activity_score |-> Weighted(normalized_review_score, 7, normalized_price, 3),
        community_engagement_score |->
            Weighted(normalized_player_count, 8, normalized_review_score, 2),
        dlc_adoption_rate |-> Weighted(normalized_player_count, 5, normalized_price, 5),
        sentiment_score |-> Weighted(normalized_review_score, 8, normalized_player_count, 2)]

ScoreFields ==
    {"market_activity_score", "community_engagement_score", "dlc_adoption_rate",
     "sentiment_score"}

(***************************************************************************)
(* Scoring of one genre group, the inputs drawn from bounded sets.         *)
(***************************************************************************)
MaxGroup == 2           \* games in the genre group of SpecBench

PeakValues == {0, 100000, 300000, 2000000}
ScoreValues == {None, Some(60), Some(80), Some(150)}
PriceValues == {0, 10, 30, 200}
GroupGames ==
    [peak_players : PeakValues, metacritic_score : ScoreValues, price_usd : PriceValues]

BenchStart(group) ==
    /\ b_group = group
    /\ b_bench = <<>>

InitBench == \E group \in SeqsUpTo(GroupGames, MaxGroup) \ {<<>>} : BenchStart(group)

\* The benchmark of the group is computed.
ComputeBenchmark ==
    /\ b_group # <<>>
    /\ b_bench = <<>>
    /\ b_bench' = <<Benchmark("Action", Accumulate(EmptyGenreData, b_group))>>
    /\ UNCHANGED b_group

NextBench ==
    /\ ComputeBenchmark
    /\ UNCHANGED <<dvars, uvars, dbvars, rvars, fvars, avars, mvars>>

(***************************************************************************)
(* calculate_genre_benchmarks on the tables.                               *)
(***************************************************************************)
\* A mutation of LatestGames: the WHERE clause on the timestamp is dropped.
LatestGames_NoWindow(table, ts) ==
    {g \in table : \A h \in table : h.appid = g.appid => h.timestamp <= g.timestamp}

\* latest_games: DISTINCT ON (appid) ... WHERE timestamp >= NOW() - 24 hours
\* ORDER BY appid, timestamp DESC
LatestGames(table, ts) ==
    {g \in table :
        /\ g.timestamp >= ts - Window
        /\ \A h \in table :
              (h.appid = g.appid /\ h.timestamp >= ts - Window) => h.timestamp <= g.timestamp}

\* The rows of the SELECT: one per (latest game, link, genre) of the join.
FetchGamesData(db, ts) ==
    {f \in [game : LatestGames(db.games, ts), link : db.game_genres,
            genre : {x.name : x \in db.genres}] :
        /\ f.link.game_id = f.game.id
        /\ \E gen \in db.genres : gen.id = f.link.genre_id /\ gen.name = f.genre}

\* cur.fetchall(): the rows in some order.
RECURSIVE SetToSeq(_)
SetToSeq(S) ==
    IF S = {} THEN <<>>
    ELSE LET x == CHOOSE y \in S : TRUE IN <<x>> \o SetToSeq(S \ {x})

\* The benchmark dicts of one run: one per genre that occurs in the rows.
Benchmarks(games_data) ==
    {Benchmark(name,
               Accumulate(EmptyGenreData,
                          LET rows == SetToSeq({f \in games_data : f.genre = name})
                          IN [i \in 1..Len(rows) |-> rows[i].game]))
       : name \in {f.genre : f \in games_data}}

\* A mutation of UpsertBenchmarks: the conflict target is (genre) alone.
UpsertBenchmarks_KeyedOnGenre(table, benchmarks, ts) ==
    {r \in table : ~\E b \in benchmarks : b.genre = r.genre}
    \cup {[k \in DOMAIN b \cup {"timestamp"} |-> IF k = "timestamp" THEN ts ELSE b[k]]
            : b \in benchmarks}

\* INSERT INTO genre_benchmarks ... ON CONFLICT (genre, timestamp) DO UPDATE SET ...
UpsertBenchmarks(table, benchmarks, ts) ==
    {r \in table : ~\E b \in benchmarks : b.genre = r.genre /\ r.timestamp = ts}
    \cup {[k \in DOMAIN b \cup {"timestamp"} |-> IF k = "timestamp" THEN ts ELSE b[k]]
            : b \in benchmarks}

\* Where calculate_genre_benchmarks can raise: in the SELECT or its fetchall
\* ("read"), or in an INSERT or the commit after the rows were read ("write").
FailurePoints == {"none", "read", "write"}

\* A mutation of calculate_genre_benchmarks: a failing read is taken for an
\* empty result and the function returns [].
calculate_genre_benchmarks_EmptyOnReadError(db, table, ts, failure) ==
    IF failure = "read"
    THEN [table |-> table, benchmarks |-> {}, raised |-> FALSE, conn |-> "closed"]
    ELSE LET benchmarks == Benchmarks(FetchGamesData(db, ts))
         IN IF failure = "write"
            THEN [table |-> table, benchmarks |-> {}, raised |-> TRUE, conn |-> "open"]
            ELSE [table |-> UpsertBenchmarks(table, benchmarks, ts),
                  benchmarks |-> benchmarks, raised |-> FALSE, conn |-> "closed"]

\* A mutation of calculate_genre_benchmarks: each INSERT is committed on its
\* own, so the rows written before the failing one stay.
calculate_genre_benchmarks_CommitsPerGenre(db, table, ts, failure) ==
    IF failure = "read"
    THEN [table |-> table, benchmarks |-> {}, raised |-> TRUE, conn |-> "open"]
    ELSE LET benchmarks == Benchmarks(FetchGamesData(db, ts))
             failing == IF benchmarks = {} THEN {} ELSE {CHOOSE b \in benchmarks : TRUE}
         IN IF failure = "write"
            THEN [table |-> UpsertBenchmarks(table, benchmarks \ failing, ts),
                  benchmarks |-> {}, raised |-> TRUE, conn |-> "open"]
            ELSE [table |-> UpsertBenchmarks(table, benchmarks, ts),
                  benchmarks |-> benchmarks, raised |-> FALSE, conn |-> "closed"]

\* calculate_genre_benchmarks(api_key) as one transaction started at ts: the
\* rows are read, one row per genre is upserted, and the commit follows the
\* last upsert; an exception at any point rolls back and is re-raised.
calculate_genre_benchmarks(db, table, ts, failure) ==
    IF failure = "read"
    THEN [table |-> table, benchmarks |-> {}, raised |-> TRUE, conn |-> "open"]
    ELSE LET benchmarks == Benchmarks(FetchGamesData(db, ts))
         IN IF failure = "write"
            THEN [table |-> table, benchmarks |-> {}, raised |-> TRUE, conn |-> "open"]
            ELSE [table |-> UpsertBenchmarks(table, benchmarks, ts),
                  benchmarks |-> benchmarks, raised |-> FALSE, conn |-> "closed"]

\* A mutation of CalculateBenchmarks: the call also deletes the snapshots that
\* have left the 24-hour window.
CalculateBenchmarks_PrunesSnapshots(failure) ==
    /\ db_ops < MaxDbOps
    /\ LET out == calculate_genre_benchmarks(Db, genre_benchmarks, now, failure)
       IN /\ genre_benchmarks' = out.table
          /\ last_op' = [kind |-> "bench", list |-> <<>>, ts |-> now, ok |-> ~out.raised,
                         failure |-> failure, conn |-> out.conn]
    /\ games' = {g \in games : g.timestamp >= now - Window}
    /\ prev_op' = last_op
    /\ prev_db' = Db
    /\ db_ops' = db_ops + 1
    /\ UNCHANGED <<genres, game_genres, now, uefn_tables>>

\* One call of calculate_genre_benchmarks.
CalculateBenchmarks(failure) ==
    /\ db_ops < MaxDbOps
    /\ LET out == calculate_genre_benchmarks(Db, genre_benchmarks, now, failure)
       IN /\ genre_benchmarks' = out.table
          /\ last_op' = [kind |-> "bench", list |-> <<>>, ts |-> now, ok |-> ~out.raised,
                         failure |-> failure, conn |-> out.conn]
    /\ prev_op' = last_op
    /\ prev_db' = Db
    /\ db_ops' = db_ops + 1
    /\ UNCHANGED <<games, genres, game_genres, now, uefn_tables>>

(***************************************************************************)
(* UEFN persistence: save_games_to_db and save_game_metrics_to_db.         *)
(***************************************************************************)
\* The tuple bound to the INSERT for one game of the listing.
UefnGameValues(game) ==
    [game_id |-> game.code,
     title |-> game.title,
     creator_name |-> Get(game, "creatorCode", NULL),
     description |-> Get(game, "description", NULL),
     thumbnail_url |-> Get(game, "thumbnailUrl", NULL),
     created_at |-> NULL,
     updated_at |-> NULL]

\* game_data: a game without "code" or "title" raises KeyError and is skipped.
GameData(list) ==
    LET valid == SelectSeq(list, LAMBDA g : {"code", "title"} \subseteq DOMAIN g)
    IN [i \in 1..Len(valid) |-> UefnGameValues(valid[i])]

UefnGameColumns ==
    {"title", "creator_name", "description", "thumbnail_url", "created_at", "updated_at"}

WithTimestamp(values, ts) ==
    [k \in DOMAIN values \cup {"timestamp"} |-> IF k = "timestamp" THEN ts ELSE values[k]]

\* A mutation of UpsertUefnGame: the conflict branch leaves the timestamp
\* column as it was.
UpsertUefnGame_KeepsTimestamp(table, values, ts) ==
    LET hit == {r \in table : r.game_id = values.game_id}
    IN IF hit = {} THEN table \cup {WithTimestamp(values, ts)}
       ELSE (table \ hit) \cup {WithTimestamp(values, r.timestamp) : r \in hit}

\* INSERT INTO uefn_top_games ... ON CONFLICT (game_id) DO UPDATE SET
\* <columns> = EXCLUDED.<columns>, timestamp = CURRENT_TIMESTAMP
UpsertUefnGame(table, values, ts) ==
    LET hit == {r \in table : r.game_id = values.game_id}
    IN (table \ hit) \cup {WithTimestamp(values, ts)}

RECURSIVE UpsertUefnGames(_, _, _)
UpsertUefnGames(table, game_data, ts) ==
    IF game_data = <<>> THEN table
    ELSE UpsertUefnGames(UpsertUefnGame(table, Head(game_data), ts), Tail(game_data), ts)

\* save_games_to_db(games): nothing is written for an empty list or when no
\* game is valid; an exception leaves the function before the commit.
save_games_to_db(table, list, ts, fails) ==
    IF list = <<>> THEN [table |-> table, raised |-> FALSE, conn |-> "none"]
    ELSE IF fails THEN [table |-> table, raised |-> TRUE, conn |-> "open"]
    ELSE [table |-> UpsertUefnGames(table, GameData(list), ts), raised |-> FALSE,
          conn |-> "closed"]

\* extract_latest_metric_value and extract_latest_retention
extract_latest_metric_value(metric_data) ==
    IF metric_data = <<>> THEN 0 ELSE metric_data[Len(metric_data)].value
extract_latest_retention(retention_data) ==
    IF retention_data = <<>> THEN [d1 |-> 0, d7 |-> 0]
    ELSE LET latest == retention_data[Len(retention_data)]
         IN [d1 |-> Get(latest, "d1", 0), d7 |-> Get(latest, "d7", 0)]

\* The timestamp of the first of plays, uniquePlayers, minutesPlayed that has data.
MetricsTimestamp(metrics) ==
    LET names == <<"plays", "uniquePlayers", "minutesPlayed">>
        present == SelectSeq(names, LAMBDA n : Get(metrics, n, <<>>) # <<>>)
    IN IF present = <<>> THEN NULL
       ELSE metrics[present[1]][Len(metrics[present[1]])].timestamp

\* datetime.now().date(), the clock being in hours
DateOf(ts) == ts \div Window

\* metrics_data: the tuple bound to the INSERT.
MetricsValues(game_id, metrics, ts) ==
    [game_id |-> game_id,
     date |-> DateOf(ts),
     plays |-> extract_latest_metric_value(Get(metrics, "plays", <<>>)),
     unique_players |-> extract_latest_metric_value(Get(metrics, "uniquePlayers", <<>>)),
     minutes_played |-> extract_latest_metric_value(Get(metrics, "minutesPlayed", <<>>)),
     favorites |-> extract_latest_metric_value(Get(metrics, "favorites", <<>>)),
     recommendations |-> extract_latest_metric_value(Get(metrics, "recommendations", <<>>)),
     average_minutes_per_player |->
         extract_latest_metric_value(Get(metrics, "averageMinutesPerPlayer", <<>>)),
     peak_ccu |-> extract_latest_metric_value(Get(metrics, "peakCCU", <<>>)),
     retention_d1 |-> extract_latest_retention(Get(metrics, "retention", <<>>)).d1,
     retention_d7 |-> extract_latest_retention(Get(metrics, "retention", <<>>)).d7,
     metrics_timestamp |-> MetricsTimestamp(metrics)]

MetricsColumns ==
    {"plays", "unique_players", "minutes_played", "favorites", "recommendations",
     "average_minutes_per_player", "peak_ccu", "retention_d1", "retention_d7",
     "metrics_timestamp"}

\* A mutation of UpsertMetrics: ON CONFLICT (game_id, date) DO NOTHING.
UpsertMetrics_DoNothing(table, values, ts) ==
    IF \E r \in table : r.game_id = values.game_id /\ r.date = values.date THEN table
    ELSE table \cup {WithTimestamp(values, ts)}

\* INSERT INTO uefn_game_metrics ... ON CONFLICT (game_id, date) DO UPDATE SET
\* <columns> = EXCLUDED.<columns>, timestamp = CURRENT_TIMESTAMP
UpsertMetrics(table, values, ts) ==
    LET hit == {r \in table : r.game_id = values.game_id /\ r.date = values.date}
    IN (table \ hit) \cup {WithTimestamp(values, ts)}

save_game_metrics_to_db(table, game_id, metrics, ts, fails) ==
    IF fails THEN [table |-> table, raised |-> TRUE, conn |-> "open"]
    ELSE [table |-> UpsertMetrics(table, MetricsValues(game_id, metrics, ts), ts),
          raised |-> FALSE, conn |-> "closed"]

\* Inputs explored by SpecUefnDb.
UGameA == [code |-> "A", title |-> "islandA", creatorCode |-> "epic"]
UGameA2 == [code |-> "A", title |-> "renamedA", description |-> "desc"]
UGameB == [code |-> "B", title |-> "islandB", thumbnailUrl |-> "url"]
UGameNoTitle == [code |-> "C"]
UefnSaveInputs == { <<>>, <<UGameA>>, <<UGameA2, UGameB>>, <<UGameNoTitle, UGameA2>> }
MetricsFull ==
    [plays |-> <<[value |-> 5, timestamp |-> "t1"], [value |-> 7, timestamp |-> "t2"]>>,
     uniquePlayers |-> <<[value |-> 3, timestamp |-> "t2"]>>,
     peakCCU |-> <<[value |-> 2, timestamp |-> "t2"]>>,
     retention |-> <<[d1 |-> 40, d7 |-> 10], [d1 |-> 50]>>]
MetricsSparse == [plays |-> <<>>, minutesPlayed |-> <<[value |-> 9, timestamp |-> "t3"]>>]
MetricsInputs == {MetricsFull, MetricsSparse}

UefnDb == [top_games |-> uefn_top_games, game_metrics |-> uefn_game_metrics]

\* One call of save_games_to_db.
SaveGamesToDb(list, fails) ==
    /\ db_ops < MaxDbOps
    /\ LET out == save_games_to_db(uefn_top_games, list, now, fails)
       IN /\ uefn_top_games' = out.table
          /\ last_op' = [kind |-> "uefn_games", list |-> list, ts |-> now, ok |-> ~out.raised,
                         failure |-> IF out.raised THEN "write" ELSE "none",
                         conn |-> out.conn]
    /\ prev_op' = last_op
    /\ prev_db' = Db
    /\ prev_uefn' = UefnDb
    /\ db_ops' = db_ops + 1
    /\ UNCHANGED <<games, genres, game_genres, genre_benchmarks, now, uefn_game_metrics>>

\* One call of save_game_metrics_to_db.
SaveGameMetricsToDb(game_id, metrics, fails) ==
    /\ db_ops < MaxDbOps
    /\ LET out == save_game_metrics_to_db(uefn_game_metrics, game_id, metrics, now, fails)
       IN /\ uefn_game_metrics' = out.table
          /\ last_op' = [kind |-> "uefn_metrics",
                         list |-> <<[code |-> game_id, metrics |-> metrics]>>,
                         ts |-> now, ok |-> ~out.raised,
                         failure |-> IF fails THEN "write" ELSE "none", conn |-> out.conn]
    /\ prev_op' = last_op
    /\ prev_db' = Db
    /\ prev_uefn' = UefnDb
    /\ db_ops' = db_ops + 1
    /\ UNCHANGED <<games, genres, game_genres, genre_benchmarks, now, uefn_top_games>>

(***************************************************************************)
(* Steam get_top_games and collect_and_save (steam_collect_data.py).       *)
(***************************************************************************)
MaxRuns == 2            \* runs of collect_and_save explored in SpecRun
NumGames == 100

\* One entry of response.ranks; appid 0 stands for an entry without appid.
Rank(appid) ==
    [appid |-> appid, concurrent_in_game |-> 10 * appid, peak_in_game |-> 100000 * appid]

\* The listings of the model: each appid (and one entry without appid) at most once.
Listings ==
    {[i \in 1..Len(s) |-> Rank(s[i])] :
        s \in {t \in SeqsUpTo(AppIds \cup {0}, NumApps) :
                 \A i, j \in 1..Len(t) : t[i] = t[j] => i = j}}

\* Behaviours of the detail API for one appid: the first response and the
\* response to a retry.
RunBehaviours ==
    { <<[conn |-> FALSE, status |-> 200, body |-> "v1"], ConnectionError>>,
      <<[conn |-> FALSE, status |-> 200, body |-> "no_appid"], ConnectionError>>,
      <<[conn |-> FALSE, status |-> 500, body |-> "garbled"], ConnectionError>> }

\* processed_game of get_top_games (the "timestamp" key is never read).
ProcessedGame(rank, details) ==
    [appid |-> rank.appid,
     name |-> details.name,
     current_players |-> rank.concurrent_in_game,
     peak_players |-> rank.peak_in_game,
     release_date |-> details.release_date,
     developer |-> details.developer,
     publisher |-> details.publisher,
     genres |-> details.genres,
     categories |-> details.categories,
     metacritic_score |-> details.metacritic_score,
     price_usd |-> details.price_usd,
     supported_languages |-> details.supported_languages]

NewRun == [phases |-> <<>>, save_ts |-> -1, bench_ts |-> -1, failed |-> {},
           listed |-> <<>>, complete |-> FALSE, has_key |-> TRUE]
NoSnap == [games |-> {}, game_genres |-> {}, genre_benchmarks |-> {}, run |-> NewRun]

RunStart(listing, upstream) ==
    /\ r_pc = "idle"
    /\ r_listing = listing
    /\ r_upstream = upstream
    /\ r_ranks = <<>>
    /\ r_processed = <<>>
    /\ r_runs = 0
    /\ r_cur = NewRun
    /\ r_snap = NoSnap

InitRun ==
    \E listing \in [ok : BOOLEAN, ranks : Listings, num_games : {NumGames}],
       upstream \in [AppIds -> RunBehaviours] :
        /\ (~listing.ok => listing.ranks = <<>>)
        /\ RunStart(listing, upstream)

\* get_top_games(api_key, num_games) called on its own, with any num_games.
ListingStart(listing, upstream) ==
    /\ r_pc = "listing"
    /\ r_listing = listing
    /\ r_upstream = upstream
    /\ r_ranks = <<>>
    /\ r_processed = <<>>
    /\ r_runs = 0
    /\ r_cur = [NewRun EXCEPT !.phases = <<"start", "init_db">>]
    /\ r_snap = NoSnap

InitListing ==
    \E listing \in [ok : BOOLEAN, ranks : Listings, num_games : 0..(NumApps + 1)],
       upstream \in [AppIds -> RunBehaviours] :
        /\ (~listing.ok => listing.ranks = <<>>)
        /\ ListingStart(listing, upstream)

Snap == [games |-> games, game_genres |-> game_genres,
         genre_benchmarks |-> genre_benchmarks, run |-> r_cur]

\* The run returns: back to idle.
EndRun ==
    /\ r_pc' = "idle"
    /\ r_runs' = r_runs + 1
    /\ r_ranks' = <<>>
    /\ r_processed' = <<>>

\* collect_and_save starts; without STEAM_API_KEY it returns at once.
StartRun(has_key) ==
    /\ r_pc = "idle"
    /\ r_runs < MaxRuns
    /\ r_snap' = Snap
    /\ IF has_key
       THEN /\ r_pc' = "init"
            /\ r_cur' = [NewRun EXCEPT !.phases = <<"start">>]
            /\ UNCHANGED <<r_runs, r_ranks, r_processed>>
       ELSE /\ r_cur' = [NewRun EXCEPT !.phases = <<"start", "return">>, !.has_key = FALSE]
            /\ EndRun
    /\ UNCHANGED <<r_listing, r_upstream, dvars, dbvars>>

\* init_db(); when it raises the run returns.
SchemaInit(ok) ==
    /\ r_pc = "init"
    /\ IF ok
       THEN /\ r_pc' = "listing"
            /\ r_cur' = [r_cur EXCEPT !.phases = Append(@, "init_db")]
            /\ UNCHANGED <<r_runs, r_ranks, r_processed>>
       ELSE /\ r_cur' = [r_cur EXCEPT !.phases = @ \o <<"init_db", "return">>]
            /\ EndRun
    /\ UNCHANGED <<r_listing, r_upstream, r_snap, dvars, dbvars>>

\* A mutation of ListingFetch: after a failed listing request the run goes on
\* to the benchmarks without calling save_to_db.
ListingFetch_SkipsPersist ==
    /\ r_pc = "listing"
    /\ r_cur' = [r_cur EXCEPT !.phases = Append(@, "listing")]
    /\ IF r_listing.ok
       THEN /\ r_ranks' = Take(r_listing.ranks, r_listing.num_games)
            /\ r_pc' = "details"
       ELSE /\ r_ranks' = <<>>
            /\ r_pc' = "bench"
    /\ r_processed' = <<>>
    /\ UNCHANGED <<r_listing, r_upstream, r_runs, r_snap, dvars, dbvars>>

\* The listing request of get_top_games; a failed request makes it return [].
ListingFetch ==
    /\ r_pc = "listing"
    /\ r_cur' = [r_cur EXCEPT !.phases = Append(@, "listing")]
    /\ IF r_listing.ok
       THEN /\ r_ranks' = Take(r_listing.ranks, r_listing.num_games)
            /\ r_pc' = "details"
       ELSE /\ r_ranks' = <<>>
            /\ r_pc' = "persist"
    /\ r_processed' = <<>>
    /\ UNCHANGED <<r_listing, r_upstream, r_runs, r_snap, dvars, dbvars>>

\* One iteration of "for game in games" in get_top_games, or its end.
DetailFetch ==
    /\ r_pc = "details"
    /\ IF r_ranks = <<>>
       THEN /\ r_pc' = "persist"
            /\ UNCHANGED <<r_ranks, r_processed, r_cur, dvars>>
       ELSE LET rank == Head(r_ranks) IN
            /\ r_ranks' = Tail(r_ranks)
            /\ r_pc' = "details"
            /\ IF rank.appid = 0
               THEN UNCHANGED <<r_processed, r_cur, dvars>>
               ELSE LET out == get_game_details(cache_file, rank.appid,
                                                r_upstream[rank.appid][1],
                                                r_upstream[rank.appid][2])
                    IN /\ cache_file' = out.file
                       /\ cache_src' = SrcAfter(cache_src, cache_file, out, rank.appid,
                                                r_upstream[rank.appid][1],
                                                r_upstream[rank.appid][2])
                       /\ UNCHANGED <<d_out, d_call, d_calls>>
                       /\ r_processed' = Append(r_processed, ProcessedGame(rank, out.ret))
                       /\ r_cur' = [r_cur EXCEPT
                                      !.phases = Append(@, "details"),
                                      !.listed = Append(@, rank.appid),
                                      !.failed = IF out.how = "failed"
                                                 THEN @ \cup {rank.appid} ELSE @]
    /\ UNCHANGED <<r_listing, r_upstream, r_runs, r_snap, dbvars>>

\* save_to_db(games); when it raises the run returns.
Persist(fails) ==
    /\ r_pc = "persist"
    /\ LET out == save_to_db(Db, r_processed, now, fails)
       IN /\ games' = out.db.games
          /\ genres' = out.db.genres
          /\ game_genres' = out.db.game_genres
    /\ IF fails
       THEN /\ r_cur' = [r_cur EXCEPT !.phases = @ \o <<"save_to_db", "return">>]
            /\ EndRun
       ELSE /\ r_cur' = [r_cur EXCEPT !.phases = Append(@, "save_to_db"), !.save_ts = now]
            /\ r_pc' = "bench"
            /\ UNCHANGED <<r_runs, r_ranks, r_processed>>
    /\ UNCHANGED <<r_listing, r_upstream, r_snap, genre_benchmarks, now, dvars,
                   db_ops, last_op, prev_op, prev_db, uefn_tables>>

\* calculate_genre_benchmarks(api_key), then the run returns.
BenchmarkCompute(failure) ==
    /\ r_pc = "bench"
    /\ LET out == calculate_genre_benchmarks(Db, genre_benchmarks, now, failure)
       IN /\ genre_benchmarks' = out.table
          /\ r_cur' = [r_cur EXCEPT !.phases = @ \o <<"benchmarks", "return">>,
                                    !.bench_ts = IF out.raised THEN -1 ELSE now,
                                    !.complete = ~out.raised]
    /\ EndRun
    /\ UNCHANGED <<r_listing, r_upstream, r_snap, games, genres, game_genres, now, dvars,
                   db_ops, last_op, prev_op, prev_db, uefn_tables>>

\* Time passes while the run is between two transactions or idle.
RunTick ==
    /\ r_pc \in {"idle", "bench"}
    /\ Tick
    /\ UNCHANGED <<rvars, dvars>>

NextRun ==
    \/ \E has_key \in BOOLEAN : StartRun(has_key) /\ UNCHANGED <<uvars, bvars, fvars, avars, mvars>>
    \/ \E ok \in BOOLEAN : SchemaInit(ok) /\ UNCHANGED <<uvars, bvars, fvars, avars, mvars>>
    \/ ListingFetch /\ UNCHANGED <<uvars, bvars, fvars, avars, mvars>>
    \/ DetailFetch /\ UNCHANGED <<uvars, bvars, fvars, avars, mvars>>
    \/ \E fails \in BOOLEAN : Persist(fails) /\ UNCHANGED <<uvars, bvars, fvars, avars, mvars>>
    \/ \E failure \in FailurePoints : BenchmarkCompute(failure) /\ UNCHANGED <<uvars, bvars, fvars, avars, mvars>>
    \/ RunTick /\ UNCHANGED <<uvars, bvars, fvars, avars, mvars>>

(***************************************************************************)
(* main of steam_collect_data.py: the initial collection and the loop.     *)
(***************************************************************************)
MaxCycles == 6          \* value of cycle_count at which the model stops the loop

\* collect_and_save catches every Exception: it returns after a completed
\* collection or after a failed one.
CollectOutcomes == {"collect_completed", "collect_failed"}

MainStart ==
    /\ m_pc = "start"
    /\ m_cycle = 0
    /\ m_events = <<>>

\* main is not running.
MainOff ==
    /\ m_pc = "off"
    /\ m_cycle = 0
    /\ m_events = <<>>

\* Lines 82-85: the first collection, run immediately.
InitialCollection(outcome) ==
    /\ m_pc = "start"
    /\ m_cycle' = m_cycle + 1
    /\ m_events' = Append(m_events, outcome)
    /\ m_pc' = "loop"

\* Lines 89-103: the top of an iteration of "while True" and its collection.
CycleCollection(outcome) ==
    /\ m_pc = "loop"
    /\ m_cycle < MaxCycles
    /\ m_cycle' = m_cycle + 1
    /\ m_events' = Append(m_events, outcome)
    /\ m_pc' = "wait"

\* Lines 105-107: time.sleep(3600) at the end of the iteration.
CycleWait ==
    /\ m_pc = "wait"
    /\ m_events' = Append(m_events, "sleep_3600")
    /\ m_pc' = "loop"
    /\ UNCHANGED m_cycle

NextMain ==
    \/ \E outcome \in CollectOutcomes :
          InitialCollection(outcome)
              /\ UNCHANGED <<dvars, uvars, dbvars, bvars, rvars, fvars, avars>>
    \/ \E outcome \in CollectOutcomes :
          CycleCollection(outcome)
              /\ UNCHANGED <<dvars, uvars, dbvars, bvars, rvars, fvars, avars>>
    \/ CycleWait /\ UNCHANGED <<dvars, uvars, dbvars, bvars, rvars, fvars, avars>>

(***************************************************************************)
(* save_additional_data and the nine collectors of extended details.       *)
(***************************************************************************)
\* The nine blocks of save_additional_data, in order, by the table they write.
ExtraCategories ==
    <<"extended_game_details", "achievements", "player_history", "game_news",
      "system_requirements", "user_reviews", "price_history", "community_stats",
      "market_data">>

\* The JSON of a successful response of each endpoint.
AchievementsPayload ==
    [achievementpercentages |->
        [achievements |-> <<[name |-> "ACH_1", percent |-> "50.0"],
                            [name |-> "ACH_2", percent |-> "5.5"]>>]]
PlayersPayload == [response |-> [player_count |-> "1200"]]
NewsPayload ==
    [appnews |-> [newsitems |-> <<[title |-> "patch", contents |-> "notes",
                                  url |-> "http://news/1", date |-> "1700000000"]>>]]
ReviewsPayload ==
    [success |-> 1,
     query_summary |-> [review_score |-> "8", review_score_desc |-> "Very Positive",
                        total_positive |-> "90", total_negative |-> "10",
                        total_reviews |-> "100"]]
\* data[str(appid)]["data"] of the appdetails endpoint
AppDetailsPayload ==
    [detailed_description |-> "long", short_description |-> "short",
     header_image |-> "header.jpg", website |-> "http://site",
     support_info |-> [url |-> "http://support"],
     age_ratings |-> [esrb |-> "T"], controller_support |-> "full",
     dlc |-> <<[id |-> "7"]>>,
     platforms |-> [windows |-> [minimum |-> "4 GB", recommended |-> "8 GB"]],
     price_overview |-> [initial |-> "1999", final |-> "999", discount_percent |-> "50",
                         currency |-> "USD"],
     workshop_items_count |-> "3",
     trading_cards |-> <<[market_price |-> 2, market_volume |-> 10],
                         [market_price |-> 3]>>,
     market_trend |-> "up"]

\* The categories whose collector returns a dict; the others return a list.
DictCategories == {"extended_game_details", "price_history", "community_stats", "market_data"}

\* json.dumps(value), the value kept inside the string
JsonDumps(value) == PyStr(<<"json", value>>)

\* The value each collector returns after a successful request (ok) and after
\* a failed one: get_extended_game_details, get_achievement_stats,
\* get_player_history, get_game_news, get_system_requirements,
\* get_user_reviews, get_price_history, get_community_stats, get_market_data.
\* The "timestamp" key of the results is never read.
Collect(cat, appid, ok) ==
    LET game_data == AppDetailsPayload IN
    IF ~ok THEN (IF cat \in DictCategories THEN <<>> ELSE PyList(<<>>))
    ELSE CASE cat = "extended_game_details" ->
                [appid |-> appid,
                 detailed_description |-> Get(game_data, "detailed_description", NULL),
                 short_description |-> Get(game_data, "short_description", NULL),
                 header_image_url |-> Get(game_data, "header_image", NULL),
                 background_image_url |-> Get(game_data, "background", NULL),
                 website_url |-> Get(game_data, "website", NULL),
                 support_url |-> Get(Get(game_data, "support_info", <<>>), "url", NULL),
                 support_email |-> Get(Get(game_data, "support_info", <<>>), "email", NULL),
                 age_ratings |-> JsonDumps(Get(game_data, "age_ratings", <<>>)),
                 controller_support |-> Get(game_data, "controller_support", PyList(<<>>)),
                 dlc_list |-> LET dlc == Get(game_data, "dlc", <<>>)
                              IN PyList([i \in 1..Len(dlc) |-> dlc[i].id])]
           [] cat = "achievements" ->
                LET list == Get(Get(AchievementsPayload, "achievementpercentages", <<>>),
                                "achievements", <<>>)
                IN PyList([i \in 1..Len(list) |->
                             [appid |-> appid,
                              achievement_name |-> Get(list[i], "name", NULL),
                              achievement_description |-> Get(list[i], "description", NULL),
                              global_percentage |-> Get(list[i], "percent", NULL)]])
           [] cat = "player_history" ->
                PyList(<<[appid |-> appid,
                          player_count |-> Get(Get(PlayersPayload, "response", <<>>),
                                               "player_count", "0")]>>)
           [] cat = "game_news" ->
                LET list == Get(Get(NewsPayload, "appnews", <<>>), "newsitems", <<>>)
                IN PyList([i \in 1..Len(list) |->
                             [appid |-> appid,
                              news_title |-> Get(list[i], "title", NULL),
                              news_content |-> Get(list[i], "contents", NULL),
                              news_url |-> Get(list[i], "url", NULL),
                              publish_date |-> Get(list[i], "date", "0")]])
           [] cat = "system_requirements" ->
                LET platforms == Get(game_data, "platforms", <<>>)
                    present == SelectSeq(<<"windows", "mac", "linux">>,
                                         LAMBDA x : x \in DOMAIN platforms)
                IN PyList([i \in 1..Len(present) |->
                             [appid |-> appid,
                              platform |-> present[i],
                              minimum_requirements |-> Get(platforms[present[i]], "minimum", ""),
                              recommended_requirements |->
                                  Get(platforms[present[i]], "recommended", "")]])
           [] cat = "user_reviews" ->
                IF Get(ReviewsPayload, "success", 0) = 1
                THEN LET query_summary == Get(ReviewsPayload, "query_summary", <<>>)
                     IN PyList(<<[appid |-> appid,
                                  review_score |-> Get(query_summary, "review_score", NULL),
                                  review_score_desc |->
                                      Get(query_summary, "review_score_desc", NULL),
                                  total_positive |-> Get(query_summary, "total_positive", NULL),
                                  total_negative |-> Get(query_summary, "total_negative", NULL),
                                  total_reviews |-> Get(query_summary, "total_reviews", NULL)]>>)
                ELSE PyList(<<>>)
           [] cat = "price_history" ->
                LET price_data == Get(game_data, "price_overview", <<>>)
                IN [appid |-> appid,
                    initial_price |-> Get(price_data, "initial", NULL),
                    final_price |-> Get(price_data, "final", NULL),
                    discount_percent |-> Get(price_data, "discount_percent", NULL),
                    currency |-> Get(price_data, "currency", NULL)]
           [] cat = "community_stats" ->
                [appid |-> appid,
                 workshop_items_count |-> Get(game_data, "workshop_items_count", "0"),
                 trading_cards_count |-> Len(Get(game_data, "trading_cards", <<>>)),
                 forum_topics_count |-> Get(game_data, "forum_topics_count", "0"),
                 forum_posts_count |-> Get(game_data, "forum_posts_count", "0"),
                 group_members_count |-> Get(game_data, "group_members_count", "0")]
           [] cat = "market_data" ->
                LET cards == Get(game_data, "trading_cards", <<>>)
                    priced == SelectSeq(cards, LAMBDA c : "market_price" \in DOMAIN c)
                    traded == SelectSeq(cards, LAMBDA c : "market_volume" \in DOMAIN c)
                    card_prices == [i \in 1..Len(priced) |-> priced[i].market_price]
                    card_volumes == [i \in 1..Len(traded) |-> traded[i].market_volume]
                IN [appid |-> appid,
                    card_market_price |->
                        IF card_prices # <<>> THEN Some(Mean(card_prices)) ELSE None,
                    card_market_volume |->
                        IF card_volumes # <<>> THEN Some(SumSeq(card_volumes)) ELSE None,
                    item_market_price |-> Get(game_data, "market_price", NULL),
                    item_market_volume |-> Get(game_data, "market_volume", NULL),
                    market_trend |-> Get(game_data, "market_trend", NULL)]

\* "if result:" of a list or a dict
Truthy(result) == IF IsList(result) THEN result.list # <<>> ELSE result # <<>>

\* For each table, the key that save_additional_data reads with .get() for
\* each column it binds.
InsertKeys(cat) ==
    CASE cat = "extended_game_details" ->
            [detailed_description |-> "detailed_description",
             short_description |-> "short_description",
             header_image_url |-> "header_image_url",
             background_image_url |-> "background_image_url",
             website_url |-> "website_url", support_url |-> "support_url",
             support_email |-> "support_email", age_ratings |-> "age_ratings",
             controller_support |-> "controller_support", dlc_list |-> "dlc_list"]
      [] cat = "achievements" ->
            [achievement_name |-> "name", achievement_description |-> "description",
             global_percentage |-> "percent"]
      [] cat = "player_history" -> [player_count |-> "players"]
      [] cat = "game_news" ->
            [news_title |-> "title", news_content |-> "contents", news_url |-> "url",
             publish_date |-> "date"]
      [] cat = "system_requirements" ->
            [platform |-> "platform", minimum_requirements |-> "minimum",
             recommended_requirements |-> "recommended"]
      [] cat = "user_reviews" ->
            [review_score |-> "review_score", review_score_desc |-> "review_score_desc",
             total_positive |-> "total_positive", total_negative |-> "total_negative",
             total_reviews |-> "total_reviews"]
      [] cat = "price_history" ->
            [initial_price |-> "initial_price", final_price |-> "final_price",
             discount_percent |-> "discount_percent", currency |-> "currency"]
      [] cat = "community_stats" ->
            [workshop_items_count |-> "workshop_items_count",
             trading_cards_count |-> "trading_cards_count",
             forum_topics_count |-> "forum_topics_count",
             forum_posts_count |-> "forum_posts_count",
             group_members_count |-> "group_members_count"]
      [] cat = "market_data" ->
            [card_market_price |-> "card_market_price",
             card_market_volume |-> "card_market_volume",
             item_market_price |-> "item_market_price",
             item_market_volume |-> "item_market_volume", market_trend |-> "market_trend"]

\* The columns of the ON CONFLICT target besides appid and timestamp.
ConflictColumns(cat) ==
    CASE cat = "achievements" -> {"achievement_name"}
      [] cat = "game_news" -> {"news_url"}
      [] cat = "system_requirements" -> {"platform"}
      [] OTHER -> {}

\* The blocks that call .get() on the collector's result itself; the others
\* iterate over it and call .get() on each item.
ReadsResultAsDict ==
    {"extended_game_details", "user_reviews", "price_history", "community_stats",
     "market_data"}

\* The tuple bound to the INSERT of one item.
CategoryValues(cat, appid, item) ==
    LET keys == InsertKeys(cat)
        read == [col \in DOMAIN keys |-> Get(item, keys[col], NULL)]
        bound == IF cat = "extended_game_details"
                 THEN [read EXCEPT
                         \* age_ratings that is not a dict becomes {}; json.dumps of it
                         !["age_ratings"] = IF IsStr(Get(item, "age_ratings", <<>>))
                                            THEN JsonDumps(<<>>)
                                            ELSE JsonDumps(Get(item, "age_ratings", <<>>)),
                         !["controller_support"] =
                             Get(item, "controller_support", PyList(<<>>)),
                         !["dlc_list"] = Get(item, "dlc_list", PyList(<<>>))]
                 ELSE read
    IN [col \in DOMAIN bound \cup {"appid"} |-> IF col = "appid" THEN appid ELSE bound[col]]

\* INSERT ... ON CONFLICT (appid, <columns>, timestamp) DO UPDATE SET ...; the
\* timestamp column is not bound and takes its default, the time of the
\* transaction.  A NULL in the conflict target never conflicts.
UpsertExtra(cat, table, values, ts) ==
    LET hit == {r \in table :
                  /\ r.appid = values.appid
                  /\ r.timestamp = ts
                  /\ \A k \in ConflictColumns(cat) : values[k] # NULL /\ r[k] = values[k]}
    IN IF hit = {} THEN table \cup {AsRow(values, NewId(table), ts)}
       ELSE (table \ hit) \cup {AsRow(values, r.id, r.timestamp) : r \in hit}

RECURSIVE UpsertItems(_, _, _, _, _)
UpsertItems(cat, table, appid, items, ts) ==
    IF items = <<>> THEN table
    ELSE UpsertItems(cat, UpsertExtra(cat, table, CategoryValues(cat, appid, Head(items)), ts),
                     appid, Tail(items), ts)

\* A mutation of SaveCategory: an exception of the block leaves what the
\* block wrote before it in place.
SaveCategory_NoRollback(cat, table, appid, result, ts, fails) ==
    IF ~Truthy(result) THEN [table |-> table, outcome |-> "skipped"]
    ELSE IF cat \in ReadsResultAsDict /\ IsList(result)
    THEN [table |-> table, outcome |-> "rolled_back"]
    ELSE LET items == IF IsList(result) THEN result.list ELSE <<result>>
         IN IF fails
            THEN [table |-> UpsertItems(cat, table, appid, <<Head(items)>>, ts),
                  outcome |-> "rolled_back"]
            ELSE [table |-> UpsertItems(cat, table, appid, items, ts),
                  outcome |-> "committed"]

\* One try block of save_additional_data on the collector's result: nothing
\* is written for an empty result; the rows are written and committed; or an
\* exception (calling .get() on a list, or a failing statement or commit) is
\* caught and the block's transaction rolled back.
SaveCategory(cat, table, appid, result, ts, fails) ==
    IF ~Truthy(result) THEN [table |-> table, outcome |-> "skipped"]
    ELSE IF cat \in ReadsResultAsDict /\ IsList(result)
    THEN [table |-> table, outcome |-> "rolled_back"]
    ELSE IF fails THEN [table |-> table, outcome |-> "rolled_back"]
    ELSE [table |-> UpsertItems(cat, table, appid,
                                IF IsList(result) THEN result.list ELSE <<result>>, ts),
          outcome |-> "committed"]

NoLog == [result |-> <<>>, outcome |-> "none", failed |-> FALSE]
CategoryNames == {ExtraCategories[i] : i \in 1..Len(ExtraCategories)}

AdditionalStart(pc, appid) ==
    /\ a_pc = pc
    /\ a_appid = appid
    /\ a_tables = [c \in CategoryNames |-> {}]
    /\ a_log = [c \in CategoryNames |-> NoLog]

\* save_additional_data is not called.
AdditionalIdle == AdditionalStart(0, 1)

\* save_additional_data(appid, api_key) has opened its connection.
InitAdditional == \E appid \in AppIds : AdditionalStart(1, appid)

\* The next try block of save_additional_data: the collector is called (its
\* request succeeds or not) and its result is written (a statement fails or
\* not); after the ninth block the function returns.
SaveAdditionalBlock(ok, fails) ==
    /\ a_pc \in 1..Len(ExtraCategories)
    /\ LET cat == ExtraCategories[a_pc]
           result == Collect(cat, a_appid, ok)
           out == SaveCategory(cat, a_tables[cat], a_appid, result, now, fails)
       IN /\ a_tables' = [a_tables EXCEPT ![cat] = out.table]
          /\ a_log' = [a_log EXCEPT ![cat] = [result |-> result, outcome |-> out.outcome,
                                              failed |-> fails]]
    /\ a_pc' = a_pc + 1
    /\ UNCHANGED a_appid

\* A statement can fail only when the block has something to write.
NextAdditional ==
    /\ \E ok, fails \in BOOLEAN : (fails => ok) /\ SaveAdditionalBlock(ok, fails)
    /\ UNCHANGED <<dvars, uvars, dbvars, bvars, rvars, fvars, mvars>>

(***************************************************************************)
(* UEFN collect_and_save (uefn_data_collector.py).                         *)
(***************************************************************************)
\* The four settings get_db_connection reads from the environment.
DbCredentials == {"DB_USER", "DB_PASSWORD", "DB_HOST", "DB_NAME"}

\* A mutation of get_db_connection: it connects without looking at the settings.
get_db_connection_NoCheck(env, connect_ok) ==
    [calls |-> <<"connect">>, raised |-> ~connect_ok]

\* get_db_connection(): ValueError when a setting is missing or empty, before
\* psycopg2.connect is called; a failing connect raises too.
get_db_connection(env, connect_ok) ==
    IF ~(DbCredentials \subseteq env) THEN [calls |-> <<>>, raised |-> TRUE]
    ELSE [calls |-> <<"connect">>, raised |-> ~connect_ok]

UefnRunStart(env) ==
    /\ f_pc = "start"
    /\ f_env = env
    /\ f_calls = <<>>
    /\ f_games = <<>>

\* The UEFN collector is not launched.
UefnRunOff ==
    /\ f_pc = "off"
    /\ f_env = DbCredentials
    /\ f_calls = <<>>
    /\ f_games = <<>>

InitUefnRun == \E env \in SUBSET DbCredentials : UefnRunStart(env)

\* Outcomes of reading and executing uefn_create_tables.sql.
SchemaOutcomes == {"ok", "unreadable", "sql_error"}

\* init_db(): connect, read the schema file, execute it; every exception is
\* re-raised and ends collect_and_save.
UefnInitDb(connect_ok, schema) ==
    /\ f_pc = "start"
    /\ LET conn == get_db_connection(f_env, connect_ok)
       IN /\ f_calls' = f_calls \o conn.calls
                        \o (IF ~conn.raised /\ schema # "unreadable" THEN <<"sql">> ELSE <<>>)
          /\ f_pc' = IF ~conn.raised /\ schema = "ok" THEN "listing" ELSE "raised"
    /\ UNCHANGED <<f_env, f_games, dbvars>>

\* games = get_top_games(): the list it returns, or the exception it re-raises.
UefnListing(list, ok) ==
    /\ f_pc = "listing"
    /\ f_calls' = Append(f_calls, "GET")
    /\ f_games' = IF ok THEN list ELSE <<>>
    /\ f_pc' = IF ok THEN "save_games" ELSE "raised"
    /\ UNCHANGED <<f_env, dbvars>>

\* save_games_to_db(games): an empty list returns before connecting.
UefnSaveGames(connect_ok, fails) ==
    /\ f_pc = "save_games"
    /\ LET conn == IF f_games = <<>> THEN [calls |-> <<>>, raised |-> FALSE]
                   ELSE get_db_connection(f_env, connect_ok)
           out == save_games_to_db(uefn_top_games, f_games, now, conn.raised \/ fails)
       IN /\ f_calls' = f_calls \o conn.calls
                        \o (IF conn.calls # <<>> /\ ~conn.raised /\ GameData(f_games) # <<>>
                            THEN <<"sql">> ELSE <<>>)
          /\ uefn_top_games' = out.table
          /\ f_pc' = IF out.raised THEN "raised" ELSE "metrics"
    /\ UNCHANGED <<f_env, f_games, games, genres, game_genres, genre_benchmarks, now,
                   db_ops, last_op, prev_op, prev_db, uefn_game_metrics, prev_uefn>>

\* One iteration of "for game in games", or the end of the loop: an exception
\* of get_game_metrics or save_game_metrics_to_db is logged and the loop
\* continues without the sleep.
UefnMetrics(fetch_ok, metrics, connect_ok, fails) ==
    /\ f_pc = "metrics"
    /\ IF f_games = <<>>
       THEN /\ f_pc' = "done"
            /\ UNCHANGED <<f_calls, f_games, uefn_game_metrics>>
       ELSE LET conn == get_db_connection(f_env, connect_ok)
                out == save_game_metrics_to_db(uefn_game_metrics, Head(f_games).code, metrics,
                                               now, conn.raised \/ fails)
            IN /\ f_games' = Tail(f_games)
               /\ f_pc' = "metrics"
               /\ IF fetch_ok
                  THEN /\ uefn_game_metrics' = out.table
                       /\ f_calls' = f_calls \o <<"GET">> \o conn.calls
                                     \o (IF ~conn.raised THEN <<"sql">> ELSE <<>>)
                                     \o (IF ~out.raised THEN <<"sleep">> ELSE <<>>)
                  ELSE /\ f_calls' = Append(f_calls, "GET")
                       /\ UNCHANGED uefn_game_metrics
    /\ UNCHANGED <<f_env, games, genres, game_genres, genre_benchmarks, now,
                   db_ops, last_op, prev_op, prev_db, uefn_top_games, prev_uefn>>

\* Either collector is launched: the Steam one (any number of runs) or the
\* UEFN one (one run).
NextCollectors ==
    \/ \E has_key \in BOOLEAN :
          f_pc = "off" /\ StartRun(has_key) /\ UNCHANGED <<uvars, bvars, fvars, avars, mvars>>
    \/ \E ok \in BOOLEAN : SchemaInit(ok) /\ UNCHANGED <<uvars, bvars, fvars, avars, mvars>>
    \/ ListingFetch /\ UNCHANGED <<uvars, bvars, fvars, avars, mvars>>
    \/ DetailFetch /\ UNCHANGED <<uvars, bvars, fvars, avars, mvars>>
    \/ \E fails \in BOOLEAN : Persist(fails) /\ UNCHANGED <<uvars, bvars, fvars, avars, mvars>>
    \/ \E failure \in FailurePoints : BenchmarkCompute(failure) /\ UNCHANGED <<uvars, bvars, fvars, avars, mvars>>
    \/ RunTick /\ UNCHANGED <<uvars, bvars, fvars, avars, mvars>>
    \/ \E connect_ok \in BOOLEAN, schema \in SchemaOutcomes :
          UefnInitDb(connect_ok, schema) /\ UNCHANGED <<dvars, uvars, bvars, rvars, avars, mvars>>
    \/ \E list \in UefnSaveInputs, ok \in BOOLEAN :
          UefnListing(list, ok) /\ UNCHANGED <<dvars, uvars, bvars, rvars, avars, mvars>>
    \/ \E connect_ok, fails \in BOOLEAN :
          UefnSaveGames(connect_ok, fails) /\ UNCHANGED <<dvars, uvars, bvars, rvars, avars, mvars>>
    \/ \E fetch_ok, connect_ok, fails \in BOOLEAN, metrics \in MetricsInputs :
          UefnMetrics(fetch_ok, metrics, connect_ok, fails)
          /\ UNCHANGED <<dvars, uvars, bvars, rvars, avars, mvars>>

(***************************************************************************)
(* Properties of get_game_details (checked under SpecDetails).             *)
(***************************************************************************)
\* The last call went to the network (it was not served from the cache).
Requested == d_out.how \in {"fetched", "not_found", "failed"}
Cooldowns == Count(d_out.events, "sleep_60")
Requests == Count(d_out.events, "GET")

\* What the code makes of a 200 response with the given body.
DetailsOfBody(appid, body) ==
    CASE body = "v1" -> ParseDetails(RawDetails(appid, 1))
      [] body = "v2" -> ParseDetails(RawDetails(appid, 2))
      [] OTHER -> default_details

\* C3: when the first response is 429 and the retried response is 200, the call
\* returns the details parsed from the second response after exactly one
\* 60-second cooldown sleep and exactly two HTTP requests.
C3_RetryThenSuccess ==
    (Requested /\ d_call.r1.status = 429 /\ ~d_call.r2.conn /\ d_call.r2.status = 200)
    => /\ Cooldowns = 1
       /\ Requests = 2
       /\ d_out.events = <<"sleep_1.2", "GET", "sleep_60", "GET">>
       /\ ~d_out.raised
       /\ d_out.ret = DetailsOfBody(d_call.appid, d_call.r2.body)

C3_Witness ==
    /\ Requested /\ d_call.r1.status = 429 /\ d_call.r2.status = 200
    /\ d_call.r2.body = "v1" /\ d_out.how = "fetched"
    /\ d_out.ret.name = "game1" /\ Requests = 2

\* C4 (as claimed): when both the first response and the retry are 429, the call
\* sleeps the cooldown once, sends no third request, and the second throttling
\* response reaches the caller as a failure of the call.
C4_SecondThrottlePropagates ==
    (Requested /\ d_call.r1.status = 429 /\ ~d_call.r2.conn /\ d_call.r2.status = 429)
    => /\ Cooldowns = 1
       /\ Requests = 2
       /\ d_out.raised

\* C9 (as claimed): no entry of the cache was written from a failed request.
C9_CacheHoldsOnlySuccesses ==
    \A k \in DOMAIN cache_file : cache_src[k].how = "fetched"

\* The return value of the last call, had it started with an empty cache.
ColdReturn == get_game_details(EmptyCache, d_call.appid, d_call.r1, d_call.r2).ret

\* C10 (as claimed): whatever the upstream and the earlier calls, the call
\* returns what it would have returned with a cold cache.
C10_ColdCacheSameResult ==
    d_out.how # "none" => d_out.ret = ColdReturn

\* The upstream answers the identifier of the last call as it did when the
\* entry the call found in the cache was written.
UpstreamUnchanged ==
    d_call.appid \in DOMAIN d_call.before
    => /\ d_call.before_src[d_call.appid].r1 = d_call.r1
       /\ d_call.before_src[d_call.appid].r2 = d_call.r2

\* C10 (amended): the call returns what it would have returned with a cold
\* cache whenever the upstream answers the identifier as it did when the cached
\* entry was written.
C10_ColdCacheSameResultIfUpstreamUnchanged ==
    (d_out.how # "none" /\ UpstreamUnchanged) => d_out.ret = ColdReturn

C10_Witness ==
    /\ d_out.how = "hit" /\ UpstreamUnchanged
    /\ d_out.ret.name = "game1" /\ d_out.events = <<>>
    /\ get_game_details(EmptyCache, d_call.appid, d_call.r1, d_call.r2).events # <<>>

\* The response that decided the last call was a transport failure: a
\* connection error, or a status that is neither 2xx nor 429.
TransportFailure ==
    LET last == IF ~d_call.r1.conn /\ d_call.r1.status = 429 THEN d_call.r2 ELSE d_call.r1
    IN last.conn \/ (last.status >= 400 /\ last.status # 429)

\* C15 (as claimed): a detail fetch that ends in a transport failure reaches the
\* caller as an error, not as a normal result.
C15_TransportFailureSurfaces ==
    (Requested /\ TransportFailure) => d_out.raised

(***************************************************************************)
(* Properties of the persisted cache file (checked under SpecCacheFile).   *)
(***************************************************************************)
\* The last call found an entry of the wrong shape under its appid.
FoundMalformed ==
    /\ d_out.how # "none"
    /\ d_call.appid \in DOMAIN d_call.before
    /\ ~IsDict(d_call.before[d_call.appid])

\* C11 (as claimed): a call that finds an entry of the wrong shape under its
\* appid goes to the API, raises nothing, and leaves in the cache file, under
\* that appid, the payload it returns.
C11_MalformedEntryOverwritten ==
    FoundMalformed
    => /\ Requested
       /\ ~d_out.raised
       /\ d_call.appid \in DOMAIN cache_file
       /\ cache_file[d_call.appid] = d_out.ret

\* C12 (as claimed): when get_game_details returns, the cache file holds
\* exactly what the in-memory cache of the call holds: every mutation of the
\* call has been flushed.
C12_EveryMutationFlushed ==
    d_out.how # "none" => cache_file = d_out.mem

(***************************************************************************)
(* Properties of UEFN get_top_games (checked under SpecUefn).              *)
(***************************************************************************)
UefnRequests == Count(u_events, "GET")

\* C2: once a page has returned a cursor that was already seen, get_top_games
\* sends at most one further page request (in fact none), has stopped, and
\* has returned the games collected so far, cut to the limit.
C2_StopsOnRepeatedCursor ==
    u_repeat_at > 0
    => /\ UefnRequests - u_repeat_at <= 1
       /\ u_pc = "done"
       /\ u_result = Take(all_games, u_limit)

\* The fourth page (the page after page 3) carried new games and a cursor that
\* had been sent before.
C2_Witness ==
    /\ u_repeat_at = 4 /\ UefnRequests = 4 /\ u_pc = "done"
    /\ \E i \in 1..Len(u_sent) : u_sent[i] = current_cursor
    /\ Len(all_games) = 4 /\ u_result = all_games

\* get_top_games has returned or raised.
UefnStopped == u_pc \in {"done", "raised"}

\* C13: whatever the server answers, get_top_games sends at most limit + 1
\* page requests; while it is paging it has collected at least one game per
\* request sent and fewer games than the limit; every step it takes is one
\* more request, and once it has returned or raised it takes no step.  So it
\* stops after at most limit + 1 requests.
C13_PaginationTerminates ==
    /\ [](/\ UefnRequests <= u_limit + 1
          /\ u_pc = "paging" => (UefnRequests <= Len(all_games) /\ Len(all_games) < u_limit))
    /\ [][~UefnStopped /\ Count(u_events', "GET") = UefnRequests + 1]_uvars

\* Three pages of one new game each fill a limit of three: the limit ends the loop.
C13_Witness ==
    /\ u_pc = "done" /\ u_limit = 3 /\ UefnRequests = 3
    /\ Len(u_result) = 3 /\ current_cursor # NULL
    /\ ~CursorLoop(current_cursor, {u_sent[i] : i \in 1..Len(u_sent)})

\* C16 (as claimed): no two page requests of get_top_games are sent without a
\* sleep between them.
C16_DelayBeforeEveryRequest ==
    \A i \in 2..Len(u_events) : u_events[i] = "GET" => u_events[i - 1] # "GET"

NoDuplicates(seq) == \A i, j \in 1..Len(seq) : seq[i] = seq[j] => i = j
\* The codes of a page that are not in `seen`, each once, in the order of
\* their first appearance in the page.
FirstNew(codes, seen) ==
    LET idx == {i \in 1..Len(codes) :
                  /\ codes[i] \notin seen
                  /\ \A j \in 1..(i - 1) : codes[j] # codes[i]}
        Kth(k) == CHOOSE i \in idx : Cardinality({j \in idx : j <= i}) = k
    IN [k \in 1..Cardinality(idx) |-> codes[Kth(k)]]

\* C14: the collected list never holds a code twice; each page appends its
\* codes not collected before, once each and in the order of their first
\* appearance in the page; the returned list is the collected list cut to the limit.
C14_NoDuplicateCodesInOrder ==
    LET kept == Len(all_games) - u_last.added
        before == SubSeq(all_games, 1, kept)
    IN /\ NoDuplicates(all_games)
       /\ kept >= 0
       /\ SubSeq(all_games, kept + 1, Len(all_games))
             = FirstNew(u_last.codes, {before[i] : i \in 1..Len(before)})
       /\ u_pc = "done" => (u_result = Take(all_games, u_limit) /\ NoDuplicates(u_result))

\* The last page repeated a code of an earlier page and carried one new code.
C14_Witness ==
    /\ u_pc = "done" /\ UefnRequests >= 2
    /\ Len(u_last.codes) = 2 /\ u_last.added = 1
    /\ u_last.codes[1] = all_games[1]
    /\ Len(u_result) = Len(all_games) /\ Len(u_result) >= 2

(***************************************************************************)
(* Properties of save_to_db (checked under SpecDb).                        *)
(***************************************************************************)
RowsOf(table, appid, ts) == {r \in table : r.appid = appid /\ r.timestamp = ts}
\* The values the last element of `list` about appid gives to the mutable columns.
LastValues(list, appid) ==
    LET last == MaxOf({i \in 1..Len(list) : list[i].appid = appid})
    IN InsertValues(list[last])
SameMutableColumns(row, values) == \A c \in MutableColumns : row[c] = values[c]

\* The last two database operations were committed save_to_db calls with the
\* same list of games and the same run timestamp.
SavedTwice == last_op.kind = "save" /\ last_op.ok /\ prev_op = last_op

\* C1: after save_to_db has run twice with the same games and the same run
\* timestamp, there is exactly one games row per listed appid for that
\* timestamp, its mutable columns have the values given by the second write,
\* and the second write added no row.
C1_SaveTwiceIsIdempotent ==
    SavedTwice
    => /\ \A i \in 1..Len(last_op.list) :
             LET appid == last_op.list[i].appid
                 rows == RowsOf(games, appid, last_op.ts)
             IN /\ Cardinality(rows) = 1
                /\ \A r \in rows : SameMutableColumns(r, LastValues(last_op.list, appid))
       /\ games = prev_db.games

C1_Witness ==
    /\ SavedTwice /\ last_op.list = <<GameA, GameA2>>
    /\ \E r \in games : r.appid = 1 /\ r.timestamp = last_op.ts /\ r.name = "renamed1"
                        /\ r.release_date = NULL

\* C7: the games table never holds two rows with the same (appid, timestamp).
C7_OneRowPerAppidAndTimestamp ==
    \A r, q \in games : (r.appid = q.appid /\ r.timestamp = q.timestamp) => r = q

\* Two committed runs at one timestamp whose lists overlap, the second naming
\* an appid twice.
C7_Witness ==
    /\ last_op.kind = "save" /\ last_op.ok /\ prev_op.kind = "save" /\ prev_op.ok
    /\ prev_op.ts = last_op.ts /\ prev_op.list = <<GameA>>
    /\ last_op.list = <<GameA2, GameB, GameA>>
    /\ Cardinality(games) = 2

(***************************************************************************)
(* Properties of the snapshot upserts (checked under SpecUefnDb).          *)
(***************************************************************************)
Committed(kind) == last_op.kind = kind /\ last_op.ok
SameColumns(row, values, columns) == \A c \in columns : row[c] = values[c]

\* The rows that the last save_to_db found under the key of one of its games,
\* each with the row that is there afterwards under the same id.
SteamHits ==
    {<<r, q>> \in prev_db.games \X games :
        /\ r.timestamp = last_op.ts
        /\ \E i \in 1..Len(last_op.list) : last_op.list[i].appid = r.appid
        /\ q.id = r.id}
\* The same for save_games_to_db (key game_id) ...
UefnGameHits ==
    {<<r, q>> \in prev_uefn.top_games \X uefn_top_games :
        /\ \E i \in 1..Len(GameData(last_op.list)) :
              GameData(last_op.list)[i].game_id = r.game_id
        /\ q.game_id = r.game_id}
\* ... and for save_game_metrics_to_db (key (game_id, date)).
MetricsHits ==
    {<<r, q>> \in prev_uefn.game_metrics \X uefn_game_metrics :
        /\ r.game_id = last_op.list[1].code /\ r.date = DateOf(last_op.ts)
        /\ q.game_id = r.game_id /\ q.date = r.date}
\* The values the last valid element of the list about game_id gives to the columns.
LastUefnValues(list, game_id) ==
    LET data == GameData(list)
    IN data[MaxOf({i \in 1..Len(data) : data[i].game_id = game_id})]

\* Every mutable column of the rows hit by the last upsert has the new value.
MutableColumnsOverwritten ==
    /\ Committed("save") =>
          \A h \in SteamHits : SameMutableColumns(h[2], LastValues(last_op.list, h[1].appid))
    /\ Committed("uefn_games") =>
          \A h \in UefnGameHits :
              SameColumns(h[2], LastUefnValues(last_op.list, h[1].game_id), UefnGameColumns)
    /\ Committed("uefn_metrics") =>
          \A h \in MetricsHits :
              SameColumns(h[2], MetricsValues(last_op.list[1].code, last_op.list[1].metrics,
                                              last_op.ts), MetricsColumns)
\* The row is still there: one row per hit row.
HitRowsKept ==
    /\ Committed("save") => \A r \in prev_db.games : \E q \in games : q.id = r.id
    /\ Committed("uefn_games") =>
          \A r \in prev_uefn.top_games :
              Cardinality({q \in uefn_top_games : q.game_id = r.game_id}) = 1
    /\ Committed("uefn_metrics") =>
          \A r \in prev_uefn.game_metrics :
              Cardinality({q \in uefn_game_metrics :
                              q.game_id = r.game_id /\ q.date = r.date}) = 1

\* C17 (as claimed): when the snapshot upsert of a collector hits an existing
\* row, every mutable column of the row gets the new value and the row's
\* timestamp keeps its previous value, for save_to_db, save_games_to_db and
\* save_game_metrics_to_db alike.
C17_ConflictKeepsTimestamp ==
    /\ MutableColumnsOverwritten
    /\ HitRowsKept
    /\ Committed("save") => \A h \in SteamHits : h[2].timestamp = h[1].timestamp
    /\ Committed("uefn_games") => \A h \in UefnGameHits : h[2].timestamp = h[1].timestamp
    /\ Committed("uefn_metrics") => \A h \in MetricsHits : h[2].timestamp = h[1].timestamp

\* C17 (amended): when a snapshot upsert hits an existing row, every mutable
\* column of the row gets the new value; the timestamp keeps its previous value
\* in save_to_db, whose key contains it, and is set to the time of the write in
\* save_games_to_db and save_game_metrics_to_db.
C17_ConflictOverwritesColumns ==
    /\ MutableColumnsOverwritten
    /\ HitRowsKept
    /\ Committed("save") => \A h \in SteamHits : h[2].timestamp = h[1].timestamp
    /\ Committed("uefn_games") => \A h \in UefnGameHits : h[2].timestamp = last_op.ts
    /\ Committed("uefn_metrics") => \A h \in MetricsHits : h[2].timestamp = last_op.ts

\* A later save_games_to_db renamed a game saved before.
C17_Witness ==
    /\ Committed("uefn_games") /\ last_op.list = <<UGameA2, UGameB>>
    /\ \E h \in UefnGameHits :
          /\ h[1].game_id = "A" /\ h[1].title = "islandA" /\ h[1].creator_name = "epic"
          /\ h[2].title = "renamedA" /\ h[2].creator_name = NULL
          /\ h[1].timestamp < last_op.ts /\ h[2].timestamp = last_op.ts

(***************************************************************************)
(* Properties of the composite scores (checked under SpecBench).           *)
(***************************************************************************)
InRange(x) == RLe(RInt(0), x) /\ RLe(x, RInt(100))

\* C5 (as claimed): for every genre group and every stored value of
\* peak_players, metacritic_score and price_usd, each of the four composite
\* scores lies in [0, 100].
C5_ScoresWithinBounds ==
    b_bench # <<>> => \A f \in ScoreFields : InRange(b_bench[1][f])

\* The normalized inputs of the composite scores, from the stored means.
NormalizedPlayers(b) ==
    IF RLe(RInt(PlayerCeiling), b.avg_player_count) THEN RInt(100)
    ELSE Rat(b.avg_player_count[1] * 100, b.avg_player_count[2] * PlayerCeiling)
NormalizedPrice(b) ==
    IF RLe(RInt(PriceCeiling), b.avg_price) THEN RInt(100)
    ELSE Rat(b.avg_price[1] * 100, b.avg_price[2] * PriceCeiling)
\* (wa * a + wb * b) / 10
Tenths(wa, a, wb, b) ==
    Rat(wa * a[1] * b[2] + wb * b[1] * a[2], 10 * a[2] * b[2])

\* The group of the worked example: peaks [100000, 300000], reviews [80, 60],
\* prices [10, 30].
ExampleGroup ==
    <<[peak_players |-> 100000, metacritic_score |-> Some(80), price_usd |-> 10],
      [peak_players |-> 300000, metacritic_score |-> Some(60), price_usd |-> 30]>>

\* C24: the four composite scores are the fixed weighted sums of the
\* normalized inputs (0.7/0.3, 0.8/0.2, 0.5/0.5, 0.8/0.2), 0 when both inputs
\* are 0, and for the example group they are 55, 30, 20 and 60.
C24_CompositeScoresAreWeightedSums ==
    b_bench # <<>> =>
        LET b == b_bench[1]
            players == NormalizedPlayers(b)
            review == b.avg_review_score
            price == NormalizedPrice(b)
        IN /\ b.market_activity_score = Tenths(7, review, 3, price)
           /\ b.community_engagement_score = Tenths(8, players, 2, review)
           /\ b.dlc_adoption_rate = Tenths(5, players, 5, price)
           /\ b.sentiment_score = Tenths(8, review, 2, players)
           /\ (RIsZero(review) /\ RIsZero(price)) => b.market_activity_score = RInt(0)
           /\ (RIsZero(players) /\ RIsZero(review)) =>
                 (b.community_engagement_score = RInt(0) /\ b.sentiment_score = RInt(0))
           /\ (RIsZero(players) /\ RIsZero(price)) => b.dlc_adoption_rate = RInt(0)
           /\ b_group = ExampleGroup =>
                 /\ b.avg_player_count = RInt(200000)
                 /\ b.avg_review_score = RInt(70)
                 /\ b.avg_price = RInt(20)
                 /\ b.market_activity_score = RInt(55)
                 /\ b.community_engagement_score = RInt(30)
                 /\ b.dlc_adoption_rate = RInt(20)
                 /\ b.sentiment_score = RInt(60)

\* The benchmark of the example group has been computed.
C24_Witness == b_bench # <<>> /\ b_group = ExampleGroup

\* No game of the group has a review score.
NoReviewScores == \A i \in 1..Len(b_group) : b_group[i].metacritic_score = None
IsNumber(x) == x \in Int \X (Nat \ {0})

\* C25: a genre group in which no entity has a review score gets
\* avg_review_score 0, and its composite scores are the weighted sums with the
\* review input 0; every stored value is a number.
C25_NoReviewScoresGivesZero ==
    (b_bench # <<>> /\ NoReviewScores) =>
        LET b == b_bench[1]
            players == NormalizedPlayers(b)
            price == NormalizedPrice(b)
        IN /\ b.avg_review_score = RInt(0)
           /\ b.market_activity_score = Tenths(0, RInt(0), 3, price)
           /\ b.community_engagement_score = Tenths(8, players, 0, RInt(0))
           /\ b.dlc_adoption_rate = Tenths(5, players, 5, price)
           /\ b.sentiment_score = Tenths(0, RInt(0), 2, players)
           /\ \A f \in ScoreFields \cup {"avg_player_count", "avg_review_score", "avg_price"} :
                 IsNumber(b[f])

\* Two games without review score, with players and prices.
C25_Witness ==
    /\ b_bench # <<>>
    /\ NoReviewScores
    /\ Len(b_group) = 2
    /\ b_group[1].peak_players = 100000 /\ b_group[2].peak_players = 300000
    /\ b_group[2].price_usd = 30
    /\ b_bench[1].sentiment_score = RInt(4)

\* The values of a field over the games of the group that have one.
PresentValues(field) ==
    LET has == SelectSeq(b_group, LAMBDA g :
                   IF field = "metacritic_score" THEN g[field] # None ELSE TRUE)
    IN [i \in 1..Len(has) |->
          IF field = "metacritic_score" THEN has[i][field][1] ELSE has[i][field]]
MeanOfPresent(field) ==
    LET values == PresentValues(field)
    IN IF values = <<>> THEN RInt(0) ELSE Rat(SumSeq(values), Len(values))

\* C26 (as claimed): each mean is the unweighted mean over the games whose
\* value for the field is present (a stored 0 is a present value), games
\* without the value add nothing to sum and count, total_games counts every
\* game, and the mean of no values is 0.
C26_MeansOverPresentValues ==
    b_bench # <<>> =>
        /\ b_bench[1].total_games = Len(b_group)
        /\ b_bench[1].avg_player_count = MeanOfPresent("peak_players")
        /\ b_bench[1].avg_review_score = MeanOfPresent("metacritic_score")
        /\ b_bench[1].avg_price = MeanOfPresent("price_usd")

(***************************************************************************)
(* Properties of collect_and_save (checked under SpecRun).                 *)
(***************************************************************************)
\* A run has just returned after all its phases.
RunCompleted == r_pc = "idle" /\ r_cur.complete
Listed(run) == {run.listed[i] : i \in 1..Len(run.listed)}

\* C6 (as claimed): in a completed run in which the detail fetch of exactly one
\* listed entity failed, the other entities have a snapshot of the run and the
\* failing entity has none.
C6_FailingEntityNotPersisted ==
    (RunCompleted /\ Cardinality(r_cur.failed) = 1)
    => /\ \A a \in Listed(r_cur) \ r_cur.failed : RowsOf(games, a, r_cur.save_ts) # {}
       /\ \A a \in r_cur.failed : RowsOf(games, a, r_cur.save_ts) = {}

\* Two runs in a row went through all their phases; the external state (the
\* listing and the detail API) is the same for both.
RanTwice == RunCompleted /\ r_runs >= 2 /\ r_snap.run.complete

\* C8 (as claimed): after the second of two runs against the same external
\* state the tables games, game_genres and genre_benchmarks are as the first
\* run left them.
C8_RerunLeavesTablesSame ==
    RanTwice
    => /\ games = r_snap.games
       /\ game_genres = r_snap.game_genres
       /\ genre_benchmarks = r_snap.genre_benchmarks

\* C8 (amended): the second run leaves every row of the first run in place and
\* unchanged; the tables are the same when its transactions carry the
\* timestamps of the first run's; and for each listed entity the row of the
\* second run has the column values of the row of the first run.
C8_RerunKeepsRowsAndRepeatsValues ==
    RanTwice
    => /\ r_snap.games \subseteq games
       /\ r_snap.game_genres \subseteq game_genres
       /\ r_snap.genre_benchmarks \subseteq genre_benchmarks
       /\ (r_cur.save_ts = r_snap.run.save_ts /\ r_cur.bench_ts = r_snap.run.bench_ts)
          => /\ games = r_snap.games
             /\ game_genres = r_snap.game_genres
             /\ genre_benchmarks = r_snap.genre_benchmarks
       /\ \A a \in Listed(r_cur) :
             /\ Cardinality(RowsOf(games, a, r_cur.save_ts)) = 1
             /\ \A r \in RowsOf(games, a, r_cur.save_ts),
                   q \in RowsOf(games, a, r_snap.run.save_ts) :
                   SameMutableColumns(r, q)

\* A second run at a later timestamp added a snapshot of every listed entity.
C8_Witness ==
    /\ RanTwice /\ r_cur.save_ts > r_snap.run.save_ts
    /\ Len(r_cur.listed) = 2
    /\ Cardinality(games) = Cardinality(r_snap.games) + 2
    /\ r_snap.genre_benchmarks # {}
    /\ Cardinality(genre_benchmarks) > Cardinality(r_snap.genre_benchmarks)

Phases == r_cur.phases
HasPhase(p) == \E i \in 1..Len(Phases) : Phases[i] = p
\* The run returned because save_to_db raised.
PersistFailed ==
    /\ r_pc = "idle" /\ Len(Phases) >= 2
    /\ Phases[Len(Phases) - 1] = "save_to_db" /\ Phases[Len(Phases)] = "return"
\* The entities of which the current run has added or changed a games row.
PersistedByRun == {a \in Listed(r_cur) : \E r \in games \ r_snap.games : r.appid = a}

\* C18 (as claimed): when persisting raised in a run, the snapshots of all
\* listed entities but at most one have been persisted.
C18_OtherEntitiesPersisted ==
    PersistFailed => Cardinality(PersistedByRun) >= Cardinality(Listed(r_cur)) - 1

\* The schema initialisation of the current run raised.
SchemaInitFailed == Phases = <<"start", "init_db", "return">>
\* The listing request of the current run failed.
ListingFailed == HasPhase("listing") /\ ~r_listing.ok

\* C19 (as claimed): a run whose schema initialisation or listing fetch failed
\* persists no snapshot, computes no benchmarks and writes no benchmark row.
C19_FatalFailureStopsRun ==
    (SchemaInitFailed \/ ListingFailed)
    => /\ games = r_snap.games
       /\ ~HasPhase("benchmarks")
       /\ genre_benchmarks = r_snap.genre_benchmarks

PhaseRank(p) ==
    CASE p = "start" -> 0
      [] p = "init_db" -> 1
      [] p = "listing" -> 2
      [] p = "details" -> 3
      [] p = "save_to_db" -> 4
      [] p = "benchmarks" -> 5
      [] p = "return" -> 6
\* Phase p occurs in the run only after phase q has.
Needs(p, q) ==
    \A i \in 1..Len(Phases) : Phases[i] = p => \E j \in 1..(i - 1) : Phases[j] = q

\* C20: the phases of a run occur in the order start, schema init, listing
\* fetch, detail fetches, persistence, benchmark computation, return; only the
\* detail fetch repeats; each phase has its predecessor behind it, so the
\* benchmarks are computed only after save_to_db, in a transaction that is not
\* older; and the phase the run is in is the successor of the last one done.
C20_PhasesInOrder ==
    /\ \A i \in 1..(Len(Phases) - 1) :
          \/ PhaseRank(Phases[i]) < PhaseRank(Phases[i + 1])
          \/ Phases[i] = "details" /\ Phases[i + 1] = "details"
    /\ Needs("init_db", "start") /\ Needs("listing", "init_db")
    /\ Needs("details", "listing") /\ Needs("save_to_db", "listing")
    /\ Needs("benchmarks", "save_to_db")
    /\ r_cur.bench_ts >= 0 => (r_cur.save_ts >= 0 /\ r_cur.save_ts <= r_cur.bench_ts)
    /\ r_pc = "init" => Phases[Len(Phases)] = "start"
    /\ r_pc = "listing" => Phases[Len(Phases)] = "init_db"
    /\ r_pc = "details" => Phases[Len(Phases)] \in {"listing", "details"}
    /\ r_pc = "persist" => Phases[Len(Phases)] \in {"listing", "details"}
    /\ r_pc = "bench" => Phases[Len(Phases)] = "save_to_db"
    /\ (r_pc = "idle" /\ Phases # <<>>) => Phases[Len(Phases)] = "return"

\* A run went through every phase, with two detail fetches, and computed the
\* benchmarks in a later transaction than the one that saved the snapshots.
C20_Witness ==
    /\ r_pc = "idle"
    /\ Phases = <<"start", "init_db", "listing", "details", "details",
                  "save_to_db", "benchmarks", "return">>
    /\ r_cur.save_ts < r_cur.bench_ts
    /\ genre_benchmarks # {}

(***************************************************************************)
(* Properties of the start of a run (checked under SpecCollectors).        *)
(***************************************************************************)
\* The UEFN collector was launched with a database setting missing.
UefnCredentialMissing == f_pc # "off" /\ ~(DbCredentials \subseteq f_env)
\* The current Steam run was started without STEAM_API_KEY.
SteamKeyMissing == r_cur.phases # <<>> /\ ~r_cur.has_key

BlockOf(i) == a_log[ExtraCategories[i]]
ItemsOf(result) == IF IsList(result) THEN result.list ELSE <<result>>

\* C22: each category is its own transaction.  A block that fails (its
\* request fails, or an exception is raised while its rows are written)
\* leaves no row of its category and changes no other table; the rows
\* committed by earlier blocks stay; and every later block still runs, and
\* commits when its result is non-empty and no exception is raised (the
\* user_reviews block raises on every non-empty result).
C22_CategoryFailureIsIsolated ==
    /\ [](\A i \in 1..Len(ExtraCategories) :
             /\ (i < a_pc) = (BlockOf(i).outcome # "none")
             /\ BlockOf(i).outcome \in {"none", "skipped", "rolled_back"}
                   => a_tables[ExtraCategories[i]] = {}
             /\ BlockOf(i).outcome = "committed" => a_tables[ExtraCategories[i]] # {}
             /\ BlockOf(i).failed => BlockOf(i).outcome = "rolled_back"
             /\ (i < a_pc /\ Truthy(BlockOf(i).result) /\ ~BlockOf(i).failed
                 /\ ExtraCategories[i] # "user_reviews")
                   => BlockOf(i).outcome = "committed")
    /\ [][\A c \in CategoryNames :
             c # ExtraCategories[a_pc] => a_tables'[c] = a_tables[c]]_avars

\* The achievements block failed after the extended details were committed,
\* and the news, the prices and the market data were committed after it.
C22_Witness ==
    /\ a_pc = Len(ExtraCategories) + 1
    /\ a_log["extended_game_details"].outcome = "committed"
    /\ a_log["achievements"].failed
    /\ a_log["game_news"].outcome = "committed"
    /\ a_log["price_history"].outcome = "committed"
    /\ a_log["market_data"].outcome = "committed"

\* C23: a category whose collector returned a non-empty result, and whose
\* statements did not fail, has for each collected item a committed row that
\* carries the collected values.
C23_NonEmptyResultIsCommitted ==
    \A cat \in CategoryNames :
        (a_log[cat].outcome # "none" /\ Truthy(a_log[cat].result) /\ ~a_log[cat].failed) =>
            \A i \in 1..Len(ItemsOf(a_log[cat].result)) :
                \E r \in a_tables[cat] :
                    \A col \in DOMAIN InsertKeys(cat) :
                        r[col] = ItemsOf(a_log[cat].result)[i][col]

\* The snapshots that may contribute to the benchmark of a genre in a run at
\* ts: taken at most 24 hours before ts, with no later snapshot of the same
\* appid, and with a link of their own row id to the genre.
ContributingSnapshots(genre, ts) ==
    {g \in games :
        /\ g.timestamp >= ts - Window
        /\ ~\E h \in games : h.appid = g.appid /\ h.timestamp > g.timestamp
        /\ \E l \in game_genres, gen \in genres :
              l.game_id = g.id /\ l.genre_id = gen.id /\ gen.name = genre}

RECURSIVE SumPeaks(_)
SumPeaks(S) ==
    IF S = {} THEN 0
    ELSE LET g == CHOOSE x \in S : TRUE IN g.peak_players + SumPeaks(S \ {g})

\* The rows of genre_benchmarks written by the call recorded in last_op.
RunRows == {r \in genre_benchmarks : r.timestamp = last_op.ts}

BenchSucceeded == last_op.kind = "bench" /\ last_op.ok

\* C27: a successful calculate_genre_benchmarks writes, for each genre, a row
\* that counts and sums exactly the snapshots that are the latest of their
\* appid, are at most 24 hours old, and are linked to the genre by their own
\* row id; for a genre without such a snapshot it writes nothing.
C27_OnlyLatestSnapshotInWindow ==
    [][(last_op'.kind = "bench" /\ last_op'.ok /\ db_ops' # db_ops) =>
          LET ts == last_op'.ts
              GenreRows(table, name) == {r \in table : r.genre = name /\ r.timestamp = ts}
          IN \A gen \in genres :
                LET used == ContributingSnapshots(gen.name, ts)
                IN IF used = {}
                   THEN GenreRows(genre_benchmarks', gen.name) = GenreRows(genre_benchmarks, gen.name)
                   ELSE \A r \in GenreRows(genre_benchmarks', gen.name) :
                           /\ r.total_games = Cardinality(used)
                           /\ r.total_players = SumPeaks(used)]_vars

\* A run whose tables hold a snapshot of appid 1 older than 24 hours, linked to
\* Indie, and a later snapshot of appid 1 in the window, linked to Action only.
C27_Witness ==
    /\ BenchSucceeded
    /\ \E old \in games, new \in games :
          /\ old.appid = new.appid
          /\ old.timestamp < last_op.ts - Window
          /\ new.timestamp >= last_op.ts - Window
          /\ \E l \in game_genres, gen \in genres :
                l.game_id = old.id /\ l.genre_id = gen.id /\ gen.name = "Indie"
          /\ ~\E l \in game_genres, gen \in genres :
                l.game_id = new.id /\ l.genre_id = gen.id /\ gen.name = "Indie"
    /\ \E r \in RunRows : r.genre = "Action" /\ r.total_games = 1
    /\ ~\E r \in RunRows : r.genre = "Indie"

\* The genres with at least one snapshot in the read set of a run at ts.
ReadGenres(ts) == {gen.name : gen \in {x \in genres : ContributingSnapshots(x.name, ts) # {}}}

\* C28: no two rows of genre_benchmarks share (genre, timestamp); and a
\* successful calculate_genre_benchmarks leaves exactly one row keyed by
\* (genre, run timestamp) for each genre of its read set and changes no row
\* with another key.
C28_OneRowPerGenrePerRun ==
    /\ [](\A r1 \in genre_benchmarks, r2 \in genre_benchmarks :
              (r1.genre = r2.genre /\ r1.timestamp = r2.timestamp) => r1 = r2)
    /\ [][(last_op'.kind = "bench" /\ last_op'.ok /\ db_ops' # db_ops) =>
             LET ts == last_op'.ts
                 Keyed(table) == {r \in table : r.genre \in ReadGenres(ts) /\ r.timestamp = ts}
             IN /\ \A name \in ReadGenres(ts) :
                      Cardinality({r \in Keyed(genre_benchmarks') : r.genre = name}) = 1
                /\ genre_benchmarks' \ Keyed(genre_benchmarks')
                       = genre_benchmarks \ Keyed(genre_benchmarks)]_vars

\* Two successful runs at the same timestamp over a read set with two genres,
\* after a run at an earlier timestamp or not.
C28_Witness ==
    /\ BenchSucceeded
    /\ prev_op.kind = "bench"
    /\ prev_op.ok
    /\ prev_op.ts = last_op.ts
    /\ Cardinality(RunRows) = 2

\* C29: a call of calculate_genre_benchmarks whose read raises re-raises the
\* error to its caller and leaves genre_benchmarks as it was before the call.
C29_ReadFailureAbortsRun ==
    [][(last_op'.kind = "bench" /\ last_op'.failure = "read" /\ db_ops' # db_ops) =>
          /\ ~last_op'.ok
          /\ genre_benchmarks' = genre_benchmarks]_vars

\* The read failed in a run that had two genres to aggregate, after an earlier
\* run had persisted its rows.
C29_Witness ==
    /\ last_op.kind = "bench"
    /\ last_op.failure = "read"
    /\ ~last_op.ok
    /\ Cardinality(ReadGenres(last_op.ts)) = 2
    /\ RunRows = {}
    /\ genre_benchmarks # {}

\* C30: whether it returns or raises, calculate_genre_benchmarks leaves the
\* tables games, genres and game_genres exactly as they were.
C30_BenchmarksLeaveSnapshotTables ==
    last_op.kind = "bench" => Db = prev_db

\* A call that raised while writing, and a call that returned, each with a
\* snapshot older than 24 hours in games.
C30_Witness ==
    /\ last_op.kind = "bench"
    /\ last_op.failure = "write"
    /\ prev_op.kind = "bench"
    /\ prev_op.ok
    /\ \E g \in games : g.timestamp < last_op.ts - Window
    /\ game_genres # {}

\* C31: no two rows of game_genres share (game_id, genre_id, timestamp), and
\* no step deletes or changes a row of game_genres that is already stored.
C31_LinksUniquePerRunAndKept ==
    /\ [](\A l1 \in game_genres, l2 \in game_genres :
              (/\ l1.game_id = l2.game_id
               /\ l1.genre_id = l2.genre_id
               /\ l1.timestamp = l2.timestamp) => l1 = l2)
    /\ [][game_genres \subseteq game_genres']_vars

\* A save whose list holds appid 1 twice, once with the genre Action repeated,
\* after a save of an earlier timestamp whose links are still stored.
C31_Witness ==
    /\ last_op.kind = "save"
    /\ last_op.ok
    /\ \E i, j \in 1..Len(last_op.list) :
          /\ i # j
          /\ last_op.list[i].appid = last_op.list[j].appid
          /\ last_op.list[j].genres = <<"Action", "Action">>
    /\ prev_op.kind = "save"
    /\ prev_op.ok
    /\ prev_op.ts < last_op.ts
    /\ \E l \in game_genres : l.timestamp = prev_op.ts
    /\ \E l \in game_genres : l.timestamp = last_op.ts

\* C32 (as claimed): the connection opened by a database operation is closed
\* when the operation returns or raises.
C32_EveryConnectionClosed ==
    last_op.kind # "none" => last_op.conn # "open"

\* C33: uefn_game_metrics never holds two rows with the same (game_id, date),
\* and after a successful save_game_metrics_to_db the row of its game and date
\* carries, in every metric column, the values of that call.
C33_OneMetricsRowPerGameAndDate ==
    /\ \A r \in uefn_game_metrics, q \in uefn_game_metrics :
          (r.game_id = q.game_id /\ r.date = q.date) => r = q
    /\ (last_op.kind = "uefn_metrics" /\ last_op.ok) =>
          LET call == last_op.list[1]
              values == MetricsValues(call.code, call.metrics, last_op.ts)
          IN /\ \E r \in uefn_game_metrics :
                   r.game_id = call.code /\ r.date = DateOf(last_op.ts)
             /\ \A r \in uefn_game_metrics :
                   (r.game_id = call.code /\ r.date = DateOf(last_op.ts))
                       => SameColumns(r, values, MetricsColumns)

\* Two successful calls for the same game on the same date with different
\* metrics.
C33_Witness ==
    /\ last_op.kind = "uefn_metrics"
    /\ last_op.ok
    /\ prev_op.kind = "uefn_metrics"
    /\ prev_op.ok
    /\ prev_op.list[1].code = last_op.list[1].code
    /\ DateOf(prev_op.ts) = DateOf(last_op.ts)
    /\ prev_op.list[1].metrics = MetricsFull
    /\ last_op.list[1].metrics = MetricsSparse

\* C34: a call of calculate_genre_benchmarks in which a write fails raises and
\* leaves genre_benchmarks as it was before the call; every call either leaves
\* a row of the run for every genre of its read set or changes no row at all.
C34_WriteFailureRollsBackAllGenres ==
    [][(last_op'.kind = "bench" /\ db_ops' # db_ops) =>
          LET ts == last_op'.ts
          IN /\ last_op'.failure = "write" => ~last_op'.ok
             /\ IF last_op'.ok
                THEN \A name \in ReadGenres(ts) :
                        \E r \in genre_benchmarks' : r.genre = name /\ r.timestamp = ts
                ELSE genre_benchmarks' = genre_benchmarks]_vars

\* A write failed in a run that had two genres to aggregate; no row of the
\* run's timestamp is stored.
C34_Witness ==
    /\ last_op.kind = "bench"
    /\ last_op.failure = "write"
    /\ ~last_op.ok
    /\ Cardinality(ReadGenres(last_op.ts)) = 2
    /\ RunRows = {}

\* C35: a call of get_game_details that finds a well-formed entry of its appid
\* returns that entry, performs no sleep and no request, and leaves the cache
\* file as it was; and no call changes or removes a well-formed entry.
C35_CacheHitIsFree ==
    /\ [](\A a \in AppIds :
             (/\ d_call.appid = a
              /\ a \in DOMAIN d_call.before
              /\ d_call.before[a] # WrongShape)
                 => /\ d_out.ret = d_call.before[a]
                    /\ d_out.events = <<>>
                    /\ ~d_out.raised
                    /\ cache_file = d_call.before)
    /\ [][\A a \in DOMAIN cache_file :
             cache_file[a] # WrongShape
                 => a \in DOMAIN cache_file' /\ cache_file'[a] = cache_file[a]]_vars

\* A call answered from the cache although the upstream would now answer
\* with the second version of the details.
C35_Witness ==
    /\ d_out.how = "hit"
    /\ d_call.r1 = [conn |-> FALSE, status |-> 200, body |-> "v2"]
    /\ d_out.ret = ParseDetails(RawDetails(d_call.appid, 1))
    /\ d_out.events = <<>>

\* C36: the first request of get_top_games carries no cursor; every later
\* request carries a cursor that is not null and that no earlier request
\* carried; and the cursor about to be sent has not been sent yet.
C36_NoCursorSentTwice ==
    /\ Len(u_sent) >= 1 => u_sent[1] = NULL
    /\ \A i \in 2..Len(u_sent) :
          /\ u_sent[i] # NULL
          /\ u_sent[i] \in seen_cursors
          /\ \A j \in 2..Len(u_sent) : u_sent[i] = u_sent[j] => i = j
    /\ u_pc = "paging" =>
          /\ current_cursor # NULL
          /\ \A i \in 1..Len(u_sent) : u_sent[i] # current_cursor

\* Three requests were sent; the third page carried new games and the cursor
\* that the second request had sent, and no fourth request followed.
C36_Witness ==
    /\ u_pc = "done"
    /\ Len(u_sent) = 3
    /\ u_sent[2] # u_sent[3]
    /\ current_cursor = u_sent[2]
    /\ u_last.added > 0
    /\ Len(all_games) < u_limit

\* The appids of a list of ranks or of processed games.
AppidsOf(seq) == [i \in 1..Len(seq) |-> seq[i].appid]
HasAppid(rank) == rank.appid # 0

\* C37: UEFN get_top_games returns at most limit games; Steam get_top_games
\* returns at most num_games games, namely the entries with an appid among the
\* first num_games ranks of the answer, in the order of the ranking.
C37_ReturnsAtMostTheRequestedNumber ==
    /\ u_pc = "done" => Len(u_result) <= u_limit
    /\ r_pc = "persist" =>
          LET n == r_listing.num_games
              first == [i \in 1..(IF Len(r_listing.ranks) < n THEN Len(r_listing.ranks) ELSE n)
                          |-> r_listing.ranks[i]]
          IN /\ Len(r_processed) <= n
             /\ AppidsOf(r_processed) = AppidsOf(SelectSeq(first, HasAppid))

\* The last page of UEFN get_top_games pushed the collected games past the
\* limit and the returned list was cut to it.
C37_Witness ==
    /\ u_pc = "done"
    /\ UefnRequests >= 2
    /\ Len(all_games) > u_limit
    /\ Len(all_games) - u_last.added < u_limit
    /\ Len(u_result) = u_limit
    /\ u_limit > 0

DetailFields ==
    {"name", "release_date", "developer", "publisher", "genres", "categories",
     "metacritic_score", "price_usd", "supported_languages"}

C39_LinksReferenceSnapshotOfSameRun ==
    [][(last_op'.kind = "save" /\ last_op'.ok /\ db_ops' # db_ops) =>
          \A l \in game_genres' \ game_genres :
              /\ l.timestamp = last_op'.ts
              /\ \E g \in games' :
                    /\ g.id = l.game_id
                    /\ g.timestamp = last_op'.ts
                    /\ \E i \in 1..Len(last_op'.list) : last_op'.list[i].appid = g.appid]_vars

\* A save that wrote links for an appid of which an earlier call had stored a
\* snapshot with an earlier timestamp.
C39_Witness ==
    /\ last_op.kind = "save"
    /\ last_op.ok
    /\ \E old \in games, new \in games, l \in game_genres :
          /\ old.appid = new.appid
          /\ old.timestamp < new.timestamp
          /\ new.timestamp = last_op.ts
          /\ l.game_id = new.id
          /\ l.timestamp = last_op.ts
          /\ \E k \in game_genres : k.game_id = old.id

\* C40 (as claimed): every collection of main after the first one is preceded
\* by the one-hour sleep.
C40_HourBetweenCollections ==
    \A i \in 2..Len(m_events) :
        m_events[i] \in CollectOutcomes => m_events[i - 1] = "sleep_3600"

(***************************************************************************)
(* Specifications.  Each one starts every subsystem in its initial state   *)
(* and runs the operations of one subsystem.                               *)
(***************************************************************************)
RunIdle ==
    RunStart([ok |-> FALSE, ranks |-> <<>>, num_games |-> NumGames],
             [a \in AppIds |-> <<ConnectionError, ConnectionError>>])

NextDb ==
    \/ Tick /\ UNCHANGED <<dvars, uvars, bvars, rvars, fvars, avars, mvars>>
    \/ \E list \in SaveInputs, fails \in BOOLEAN :
          SaveToDb(list, fails) /\ UNCHANGED <<dvars, uvars, bvars, rvars, fvars, avars, mvars>>
    \/ \E failure \in FailurePoints :
          CalculateBenchmarks(failure) /\ UNCHANGED <<dvars, uvars, bvars, rvars, fvars, avars, mvars>>

\* The snapshot upserts of both collectors.
NextUefnDb ==
    \/ Tick /\ UNCHANGED <<dvars, uvars, bvars, rvars, fvars, avars, mvars>>
    \/ \E list \in {<<GameA>>, <<GameA2, GameB>>} :
          SaveToDb(list, FALSE) /\ UNCHANGED <<dvars, uvars, bvars, rvars, fvars, avars, mvars>>
    \/ \E list \in UefnSaveInputs, fails \in BOOLEAN :
          SaveGamesToDb(list, fails) /\ UNCHANGED <<dvars, uvars, bvars, rvars, fvars, avars, mvars>>
    \/ \E metrics \in MetricsInputs, fails \in BOOLEAN :
          SaveGameMetricsToDb("A", metrics, fails) /\ UNCHANGED <<dvars, uvars, bvars, rvars, fvars, avars, mvars>>

\* Either listing function called on its own: UEFN get_top_games while the
\* Steam collector is idle, or Steam get_top_games from its listing request to
\* its return.
NextTopGames ==
    \/ r_pc = "idle" /\ UefnFirstPageError /\ UNCHANGED <<dvars, dbvars, bvars, rvars, fvars, avars, mvars>>
    \/ \E page \in Pages :
          r_pc = "idle" /\ UefnFirstPage(page)
              /\ UNCHANGED <<dvars, dbvars, bvars, rvars, fvars, avars, mvars>>
    \/ r_pc = "idle" /\ UefnNextPageError /\ UNCHANGED <<dvars, dbvars, bvars, rvars, fvars, avars, mvars>>
    \/ \E page \in Pages :
          r_pc = "idle" /\ UefnNextPage(page)
              /\ UNCHANGED <<dvars, dbvars, bvars, rvars, fvars, avars, mvars>>
    \/ ListingFetch /\ UNCHANGED <<uvars, bvars, fvars, avars, mvars>>
    \/ DetailFetch /\ UNCHANGED <<uvars, bvars, fvars, avars, mvars>>

\* The subsystems that a specification does not exercise stay at rest.
DetailsStart == InitDetails /\ UefnStart(1) /\ InitDb /\ BenchStart(<<>>) /\ RunIdle /\ UefnRunOff /\ AdditionalIdle /\ MainOff
UefnInitial == InitDetails /\ InitUefn /\ InitDb /\ BenchStart(<<>>) /\ RunIdle /\ UefnRunOff /\ AdditionalIdle /\ MainOff
BenchInitial == InitDetails /\ UefnStart(1) /\ InitDb /\ InitBench /\ RunIdle /\ UefnRunOff /\ AdditionalIdle /\ MainOff
RunInitial == InitDetails /\ UefnStart(1) /\ InitDb /\ BenchStart(<<>>) /\ InitRun /\ UefnRunOff /\ AdditionalIdle /\ MainOff

CollectorsInitial ==
    /\ InitDetails /\ UefnStart(1) /\ InitDb /\ BenchStart(<<>>)
    /\ \/ InitRun /\ UefnRunOff
       \/ RunIdle /\ InitUefnRun
    /\ AdditionalIdle /\ MainOff

TopGamesInitial ==
    /\ InitDetails /\ InitDb /\ BenchStart(<<>>)
    /\ \/ InitUefn /\ RunIdle
       \/ UefnStart(1) /\ InitListing
    /\ UefnRunOff /\ AdditionalIdle /\ MainOff

MainInitial ==
    InitDetails /\ UefnStart(1) /\ InitDb /\ BenchStart(<<>>) /\ RunIdle /\ UefnRunOff
    /\ AdditionalIdle /\ MainStart

AdditionalInitial ==
    InitDetails /\ UefnStart(1) /\ InitDb /\ BenchStart(<<>>) /\ RunIdle /\ UefnRunOff
    /\ InitAdditional /\ MainOff

CacheFileInitial == InitCacheFile /\ UefnStart(1) /\ InitDb /\ BenchStart(<<>>) /\ RunIdle /\ UefnRunOff /\ AdditionalIdle /\ MainOff

\* get_game_details called any number of times on a cache file found on disk.
SpecCacheFile == CacheFileInitial /\ [][NextDetails]_vars

\* get_game_details called any number of times against any upstream.
SpecDetails == DetailsStart /\ [][NextDetails]_vars

\* UEFN get_top_games against any listing server.
SpecUefn == UefnInitial /\ [][NextUefn]_vars

\* save_to_db and calculate_genre_benchmarks called in any order.
SpecDb == DetailsStart /\ [][NextDb]_vars

\* save_to_db, save_games_to_db and save_game_metrics_to_db called in any order.
SpecUefnDb == DetailsStart /\ [][NextUefnDb]_vars

\* One launch of either collector.
SpecCollectors == CollectorsInitial /\ [][NextCollectors]_vars

\* main of the Steam collector, each collection completing or failing.
SpecMain == MainInitial /\ [][NextMain]_vars

\* One call of either get_top_games.
SpecTopGames == TopGamesInitial /\ [][NextTopGames]_vars

\* One call of save_additional_data against any upstream.
SpecAdditional == AdditionalInitial /\ [][NextAdditional]_vars

\* The scoring of one genre group.
SpecBench == BenchInitial /\ [][NextBench]_vars

\* Runs of the Steam collect_and_save against a fixed external state.
SpecRun == RunInitial /\ [][NextRun]_vars

Init == InitDetails /\ InitUefn /\ InitDb /\ InitBench /\ InitRun /\ UefnRunOff /\ AdditionalIdle /\ MainOff
Next == NextDetails \/ NextUefn \/ NextDb \/ NextUefnDb \/ NextBench \/ NextRun
        \/ NextCollectors \/ NextAdditional \/ NextTopGames \/ NextMain
\* Every subsystem at once.
Spec == Init /\ [][Next]_vars
====
